---- MODULE Spec2Model ----
(***************************************************************************)
(* A model of the AI2Word document generator (docxGenerator.ts with its    *)
(* mathRenderer / mermaidRenderer collaborators).                         *)
(*                                                                         *)
(* The module holds several specifications, one per component:             *)
(*   SpecCache  - the LRUCache class under arbitrary get / set / clear     *)
(*   SpecRun    - generateWordDocument runs: the block loop, the formula   *)
(*                fan-out of processMixedContent and the two caches        *)
(*   SpecNorm   - the text normalizer (smart dedent + whitespace collapse) *)
(*   SpecInline - processInlineTokens / processTextWithHtml                *)
(*   SpecExtract - extractLatexFormulas / hasLatexFormula                  *)
(*   SpecBlock  - one block token through processTokens                    *)
(*   SpecWidths - calculateColumnWidths                                    *)
(*   SpecDownload - handleDownload of the application around a generation  *)
(*   SpecOverlap - overlapping generateWordDocument invocations            *)
(*   SpecRunFair - SpecRun with the fairness its promises justify          *)
(* Each specification moves its own variables and leaves the others at     *)
(* their idle values.                                                      *)
(***************************************************************************)
EXTENDS Integers, Sequences, FiniteSets, TLC

(***************************************************************************)
(* Generic helpers on sequences.                                           *)
(***************************************************************************)
Range(s) == {s[i] : i \in DOMAIN s}

SeqsUpTo(S, n) == UNION {[1..m -> S] : m \in 0..n}

NonEmptySeqsUpTo(S, n) == UNION {[1..m -> S] : m \in 1..n}

RECURSIVE Flatten(_)
Flatten(ss) == IF ss = <<>> THEN <<>> ELSE Head(ss) \o Flatten(Tail(ss))

Min(a, b) == IF a <= b THEN a ELSE b

Max(a, b) == IF a >= b THEN a ELSE b

(***************************************************************************)
(* Values held by the rasterization caches: an image record or null (a     *)
(* failed render).  Undefined is what Map.get answers for an absent key.   *)
(***************************************************************************)
Null == [kind |-> "null", src |-> "", display |-> FALSE,
         width |-> 0, height |-> 0]

Undefined == [kind |-> "undefined", src |-> "", display |-> FALSE,
              width |-> 0, height |-> 0]

\* { base64, width, height } of a rasterization of src with the given size
SizedImage(src, display, w, h) ==
  [kind |-> "image", src |-> src, display |-> display,
   width |-> w, height |-> h]

Image(src, display) == SizedImage(src, display, 480, 320)

(***************************************************************************)
(* class LRUCache<K, V>.  The backing Map is a sequence of entries in      *)
(* insertion order (a JavaScript Map iterates in insertion order; delete   *)
(* followed by set moves a key to the end).                                *)
(***************************************************************************)
CacheKeys(cache) == {cache[i].key : i \in DOMAIN cache}

CacheHas(cache, key) == key \in CacheKeys(cache)

\* Map.get: the stored value, or undefined
MapGet(cache, key) ==
  IF CacheHas(cache, key)
    THEN (CHOOSE e \in Range(cache) : e.key = key).value
    ELSE Undefined

\* Map.delete
MapDelete(cache, key) == SelectSeq(cache, LAMBDA e : e.key # key)

\* Map.set of a key that is absent (appends at the end)
MapAppend(cache, key, value) == Append(cache, [key |-> key, value |-> value])

\* LRUCache.get: [value, cache]; a present entry is re-inserted at the end
LRUGetNoPromote(cache, key) == [value |-> MapGet(cache, key), cache |-> cache]

LRUGet(cache, key) ==
  LET value == MapGet(cache, key)
  IN  [value |-> value,
       cache |-> IF value # Undefined
                   THEN MapAppend(MapDelete(cache, key), key, value)
                   ELSE cache]

\* LRUCache.set
LRUSetEvictsAtCapacity(cache, maxSize, key, value) ==
  LET oldest == IF Len(cache) >= maxSize /\ cache # <<>>
                  THEN MapDelete(cache, Head(cache).key)
                  ELSE cache
  IN  MapAppend(MapDelete(oldest, key), key, value)

LRUSetNoEvict(cache, maxSize, key, value) ==
  LET kept == IF CacheHas(cache, key)
                THEN MapDelete(cache, key)
                ELSE IF Len(cache) > maxSize /\ cache # <<>>
                       THEN MapDelete(cache, Head(cache).key)
                       ELSE cache
  IN  MapAppend(kept, key, value)

LRUSet(cache, maxSize, key, value) ==
  LET kept == IF CacheHas(cache, key)
                THEN MapDelete(cache, key)
                ELSE IF Len(cache) >= maxSize /\ cache # <<>>
                       THEN MapDelete(cache, Head(cache).key)
                       ELSE cache
  IN  MapAppend(kept, key, value)

\* LRUCache.clear
LRUClear(cache) == <<>>

\* LRUCache.size
LRUSize(cache) == Len(cache)

(***************************************************************************)
(* SpecCache: one LRUCache instance of capacity 1..MaxCapacity under any   *)
(* sequence of get / set / clear.                                          *)
(*   lru      - the instance: [maxSize, cache]                             *)
(*   recency  - specification-side record of the keys by last touch,      *)
(*              least recent first (a touch is a set, or a get of a        *)
(*              present key); kept by its own rule, not by the code's      *)
(*   promoted - keys whose last touch was a get                            *)
(*   lastOp   - the operation just performed and what it answered          *)
(***************************************************************************)
VARIABLES lru, recency, promoted, lastOp

cacheVars == <<lru, recency, promoted, lastOp>>

\* state of the other specifications, declared with them below
VARIABLES mermaidImageCache, formulaImageCache, pc, tokens, index, sub,
          group, tasks, tableRows, docxElements, lookups, calls, earlier

runVars == <<mermaidImageCache, formulaImageCache, pc, tokens, index, sub,
             group, tasks, tableRows, docxElements, lookups, calls, earlier>>

VARIABLES markdownText, dedentedText, normalizedMarkdown, previous, passes

normVars == <<markdownText, dedentedText, normalizedMarkdown, previous, passes>>

VARIABLES inlineTokens, inheritedOptions, inlineRuns, built

inlineVars == <<inlineTokens, inheritedOptions, inlineRuns, built>>

(***************************************************************************)
(* SpecExtract: one call of extractLatexFormulas.                          *)
(*   mathText   - the text handed to the extractor, a sequence of symbols  *)
(*   extraction - <<>> before the call, afterwards what it returned        *)
(***************************************************************************)
VARIABLES mathText, extraction

extractVars == <<mathText, extraction>>

(***************************************************************************)
(* SpecBlock: the elements one heading or code token contributes.          *)
(*   blockToken    - the token                                             *)
(*   blockImage    - what the diagram rasterizer answered for it           *)
(*   blockElements - the elements pushed for it                            *)
(*   emitted       - whether the case of processTokens has run             *)
(***************************************************************************)
VARIABLES blockToken, blockImage, blockElements, emitted

blockVars == <<blockToken, blockImage, blockElements, emitted>>

(***************************************************************************)
(* SpecWidths: one call of calculateColumnWidths.                          *)
(*   tableToken   - the table token: header and rows of cell texts         *)
(*   columnWidths - <<>> before the call, afterwards what it returned      *)
(***************************************************************************)
VARIABLES tableToken, columnWidths

widthVars == <<tableToken, columnWidths>>

(***************************************************************************)
(* SpecDownload: handleDownload of App.tsx around generateWordDocument.    *)
(*   content      - the text of the editor                                 *)
(*   user         - whether a user is signed in                            *)
(*   isProcessing - the React state of that name                           *)
(*   download     - the running handleDownload: where it is at ("idle",    *)
(*                  "generating" awaiting generateWordDocument,            *)
(*                  "inserting" awaiting the insert into conversions,      *)
(*                  "returned") and the content and user of its closure    *)
(*   generation   - generateWordDocument: its state, what threw, its blob  *)
(*   conversions  - the history records inserted                           *)
(*   savedFiles   - the blobs handed to saveAs                             *)
(*   alerts       - the messages shown                                     *)
(***************************************************************************)
VARIABLES content, user, isProcessing, download, generation, conversions,
          savedFiles, alerts

downloadVars == <<content, user, isProcessing, download, generation,
                  conversions, savedFiles, alerts>>

(***************************************************************************)
(* SpecOverlap: two invocations of generateWordDocument that overlap in    *)
(* time on the module-level formula cache.                                 *)
(*   invocations - per invocation: its position, its formulas, its loop    *)
(*                 index                                                   *)
(*   events      - what each invocation did to the cache, in order         *)
(***************************************************************************)
VARIABLES invocations, events

overlapVars == <<invocations, events>>

vars == <<cacheVars, runVars, normVars, inlineVars, extractVars, blockVars,
         widthVars, downloadVars, overlapVars>>

MaxCapacity == 3

TestKeys == 1..(MaxCapacity + 1)

TestValues == {Null, Image("v", FALSE)}

NoOp == [op |-> "none", key |-> 0, value |-> Undefined, evicted |-> {}]

Touch(order, key) == SelectSeq(order, LAMBDA k : k # key) \o <<key>>

InitCache ==
  /\ lru \in {[maxSize |-> n, cache |-> <<>>] : n \in 1..MaxCapacity}
  /\ recency = <<>>
  /\ promoted = {}
  /\ lastOp = NoOp

InitNormIdle ==
  /\ markdownText = <<>>
  /\ dedentedText = <<>>
  /\ normalizedMarkdown = <<>>
  /\ previous = <<>>
  /\ passes = 0

InitInlineIdle ==
  /\ inlineTokens = <<>>
  /\ inheritedOptions = <<>>
  /\ inlineRuns = <<>>
  /\ built = FALSE

InitExtractIdle ==
  /\ mathText = <<>>
  /\ extraction = <<>>

InitBlockIdle ==
  /\ blockToken = <<>>
  /\ blockImage = <<>>
  /\ blockElements = <<>>
  /\ emitted = FALSE

InitWidthsIdle ==
  /\ tableToken = <<>>
  /\ columnWidths = <<>>

InitDownloadIdle ==
  /\ content = <<>>
  /\ user = FALSE
  /\ isProcessing = FALSE
  /\ download = [at |-> "idle", content |-> <<>>, user |-> FALSE]
  /\ generation = [state |-> "none", thrown |-> "none", blob |-> <<>>]
  /\ conversions = <<>>
  /\ savedFiles = <<>>
  /\ alerts = <<>>

InitOverlapIdle ==
  /\ invocations = <<>>
  /\ events = <<>>

InitCacheIdle ==
  /\ lru = [maxSize |-> 1, cache |-> <<>>]
  /\ recency = <<>>
  /\ promoted = {}
  /\ lastOp = NoOp

CacheGet(key) ==
  LET r == LRUGet(lru.cache, key)
      present == CacheHas(lru.cache, key)
  IN  /\ lru' = [lru EXCEPT !.cache = r.cache]
      /\ recency' = IF present THEN Touch(recency, key) ELSE recency
      /\ promoted' = IF present THEN promoted \cup {key} ELSE promoted
      /\ lastOp' = [op |-> "get", key |-> key, value |-> r.value,
                    evicted |-> CacheKeys(lru.cache) \ CacheKeys(r.cache)]
      /\ UNCHANGED <<runVars, normVars, inlineVars, extractVars, blockVars,
                 widthVars, downloadVars, overlapVars>>

CacheSet(key, value) ==
  LET after == LRUSet(lru.cache, lru.maxSize, key, value)
      \* specification side: a new key entering a full cache displaces the
      \* least recently touched key
      full == Len(recency) >= lru.maxSize /\ key \notin Range(recency)
      base == IF full THEN Tail(recency) ELSE recency
  IN  /\ lru' = [lru EXCEPT !.cache = after]
      /\ recency' = Touch(base, key)
      /\ promoted' = promoted \ {key}
      /\ lastOp' = [op |-> "set", key |-> key, value |-> value,
                    evicted |-> CacheKeys(lru.cache) \ CacheKeys(after)]
      /\ UNCHANGED <<runVars, normVars, inlineVars, extractVars, blockVars,
                 widthVars, downloadVars, overlapVars>>

CacheClear ==
  /\ lru' = [lru EXCEPT !.cache = LRUClear(lru.cache)]
  /\ recency' = <<>>
  /\ promoted' = {}
  /\ lastOp' = [op |-> "clear", key |-> 0, value |-> Undefined,
                evicted |-> CacheKeys(lru.cache)]
  /\ UNCHANGED <<runVars, normVars, inlineVars, extractVars, blockVars,
                 widthVars, downloadVars, overlapVars>>

(***************************************************************************)
(* Document tokens (the result of marked.lexer) as SpecRun sees them.      *)
(*                                                                         *)
(* A text span (token.text of a paragraph, list item, table cell or        *)
(* heading) is given by what hasLatexFormula / extractLatexFormulas answer *)
(* for it:                                                                 *)
(*   detected - hasLatexFormula(text)                                      *)
(*   pieces   - processedText split on the placeholder pattern: text       *)
(*              pieces and, at each placeholder, the extracted formula     *)
(*   text     - the trimmed text itself (the source of the naked formula   *)
(*              when detection fires and nothing is extracted)             *)
(***************************************************************************)
TextPiece(t) == [kind |-> "text", type |-> "", formula |-> t]

FormulaPiece(type, src) == [kind |-> "formula", type |-> type, formula |-> src]

Span(detected, pieces, text) ==
  [detected |-> detected, pieces |-> pieces, text |-> text]

\* formulas, in extraction order, each with its placeholder (here: the
\* position of the placeholder among the pieces, unique within the span)
ExtractedFormulas(span) ==
  LET idx == SelectSeq([i \in DOMAIN span.pieces |-> i],
                       LAMBDA i : span.pieces[i].kind = "formula")
  IN  [j \in DOMAIN idx |->
         [type |-> span.pieces[idx[j]].type,
          formula |-> span.pieces[idx[j]].formula,
          placeholder |-> idx[j]]]

NakedPlaceholder == 0

\* processMixedContent: effectiveFormulas (the naked fallback included)
EffectiveFormulas(span) ==
  IF ~span.detected THEN <<>>
  ELSE IF ExtractedFormulas(span) = <<>>
    THEN <<[type |-> "block", formula |-> span.text,
            placeholder |-> NakedPlaceholder]>>
    ELSE ExtractedFormulas(span)

\* String.prototype.trim on a sequence of symbols
IsSpace(c) == c \in {" ", "\n", "\t", "\f", "U+3000", "U+00A0"}

RECURSIVE TrimStart(_)
TrimStart(s) ==
  IF s # <<>> /\ IsSpace(Head(s)) THEN TrimStart(Tail(s)) ELSE s

RECURSIVE TrimEnd(_)
TrimEnd(s) ==
  IF s # <<>> /\ IsSpace(s[Len(s)])
    THEN TrimEnd(SubSeq(s, 1, Len(s) - 1))
    ELSE s

Trim(s) == TrimEnd(TrimStart(s))

\* String.prototype.split(sep) on a sequence of symbols
RECURSIVE SplitOn(_, _)
SplitOn(s, sep) ==
  IF \E i \in DOMAIN s : s[i] = sep
    THEN LET i == CHOOSE i \in DOMAIN s :
                    s[i] = sep /\ \A j \in 1..(i - 1) : s[j] # sep
         IN  <<SubSeq(s, 1, i - 1)>> \o SplitOn(SubSeq(s, i + 1, Len(s)), sep)
    ELSE <<s>>

(***************************************************************************)
(* The formula extractor (extractLatexFormulas, hasLatexFormula).  A text  *)
(* is a sequence of symbols: "$" is one dollar sign, "\\[" "\\]" "\\(" and *)
(* "\\)" are the two-character delimiters, "\\times" is a known command    *)
(* name with its backslash, "U+00D7" the multiplication sign; a            *)
(* placeholder the extractor writes is one symbol.                         *)
(***************************************************************************)
PlaceholderOf(type, n) ==
  "[[FORMULA_" \o (IF type = "block" THEN "BLOCK" ELSE "INLINE") \o "_"
               \o ToString(n) \o "]]"

\* /\[\[FORMULA_(INLINE|BLOCK)_\d+\]\]/ on one symbol; limit bounds \d+
IsPlaceholder(sym, limit) ==
  \E type \in {"block", "inline"}, n \in 0..limit : sym = PlaceholderOf(type, n)

\* the symbolMap entries of the symbols used here
normalizeSymbol(sym) == IF sym = "U+00D7" THEN "\\times" ELSE sym

normalizeUnicodeToLatex(text) == [i \in DOMAIN text |-> normalizeSymbol(text[i])]

FormulaOf(type, source, n) ==
  [type |-> type, formula |-> normalizeUnicodeToLatex(Trim(source)),
   placeholder |-> PlaceholderOf(type, n)]

\* the callback of one replace: push the formula, advance formulaIndex by
\* step, return the placeholder
Pushed(acc, type, source, step) ==
  [processedText |-> Append(acc.processedText,
                            PlaceholderOf(type, acc.formulaIndex)),
   formulas |-> Append(acc.formulas, FormulaOf(type, source, acc.formulaIndex)),
   formulaIndex |-> acc.formulaIndex + step]

\* the text between two matches is copied as it is
Copied(acc, part) == [acc EXCEPT !.processedText = @ \o part]

StartsAt(text, i, pattern) ==
  /\ i + Len(pattern) - 1 <= Len(text)
  /\ SubSeq(text, i, i + Len(pattern) - 1) = pattern

\* the first position >= from where pattern starts, 0 if none
FirstAt(text, from, pattern) ==
  IF \E j \in from..Len(text) : StartsAt(text, j, pattern)
    THEN CHOOSE j \in from..Len(text) :
           /\ StartsAt(text, j, pattern)
           /\ \A k \in from..(j - 1) : ~StartsAt(text, k, pattern)
    ELSE 0

\* the least element of a non-empty set of positions
Leftmost(positions) == CHOOSE k \in positions : \A m \in positions : k <= m

\* text.replace(/open([\s\S]*?)close/g, ...) from position i on: the
\* leftmost match, then the matches after it
RECURSIVE ReplaceDelimited(_, _, _, _, _, _)
ReplaceDelimited(text, i, open, close, type, acc) ==
  LET starts == {k \in i..Len(text) :
                   /\ StartsAt(text, k, open)
                   /\ FirstAt(text, k + Len(open), close) # 0}
  IN  IF starts = {} THEN Copied(acc, SubSeq(text, i, Len(text)))
      ELSE LET k == Leftmost(starts)
               j == FirstAt(text, k + Len(open), close)
           IN  ReplaceDelimited(text, j + Len(close), open, close, type,
                 Pushed(Copied(acc, SubSeq(text, i, k - 1)), type,
                        SubSeq(text, k + Len(open), j - 1), 1))

\* the end of a match of /(?<!\$)\$(?!\$)([^\$\n]+?)\$(?!\$)/ that starts at
\* i, 0 if there is none
InlineDollarEnd(text, i) ==
  IF /\ text[i] = "$"
     /\ i = 1 \/ text[i - 1] # "$"
     /\ i + 1 <= Len(text)
     /\ text[i + 1] \notin {"$", "\n"}
    THEN LET j == FirstAt(text, i + 1, <<"$">>)
         IN  IF /\ j # 0
                /\ \A k \in (i + 1)..(j - 1) : text[k] # "\n"
                /\ j = Len(text) \/ text[j + 1] # "$"
               THEN j
               ELSE 0
    ELSE 0

\* the $...$ pass; its callback increments formulaIndex twice
RECURSIVE ReplaceInlineDollar(_, _, _)
ReplaceInlineDollar(text, i, acc) ==
  LET starts == {k \in i..Len(text) : InlineDollarEnd(text, k) # 0}
  IN  IF starts = {} THEN Copied(acc, SubSeq(text, i, Len(text)))
      ELSE LET k == Leftmost(starts)
               j == InlineDollarEnd(text, k)
           IN  ReplaceInlineDollar(text, j + 1,
                 Pushed(Copied(acc, SubSeq(text, i, k - 1)), "inline",
                        SubSeq(text, k + 1, j - 1), 2))

\* the command names of nakedCommandRegex among the symbols used here
NakedCommands == {"\\times", "\\frac"}

\* the end of a match of nakedCommandRegex that starts at i, 0 if none: the
\* command name and, if one follows, a brace group
NakedEnd(text, i) ==
  IF text[i] \in NakedCommands
    THEN IF i + 1 <= Len(text) /\ text[i + 1] = "{"
              /\ FirstAt(text, i + 2, <<"}">>) # 0
           THEN FirstAt(text, i + 2, <<"}">>)
           ELSE i
    ELSE 0

RECURSIVE ReplaceNaked(_, _, _)
ReplaceNaked(text, i, acc) ==
  LET starts == {k \in i..Len(text) : NakedEnd(text, k) # 0}
  IN  IF starts = {} THEN Copied(acc, SubSeq(text, i, Len(text)))
      ELSE LET k == Leftmost(starts)
               j == NakedEnd(text, k)
           IN  ReplaceNaked(text, j + 1,
                 Pushed(Copied(acc, SubSeq(text, i, k - 1)), "inline",
                        SubSeq(text, k, j), 1))

\* how many characters of [=...\\] a symbol holds
MathCharsOf(sym) ==
  IF sym \in {"=", "U+00D7", "\\[", "\\]", "\\(", "\\)", "\\times", "\\frac"}
    THEN 1 ELSE 0

\* str.match(/[=...\\]/g): the number of matches
MathChars(str) ==
  Cardinality({i \in DOMAIN str : MathCharsOf(str[i]) = 1})

MathLineTriggers == 3

MathLineLength == 200

\* a heuristic without the length limit
isMathLineOfAnyLength(str) ==
  /\ Trim(str) # <<>>
  /\ MathChars(str) >= MathLineTriggers

\* isMathLine; the length is counted in symbols
isMathLine(str) ==
  /\ Trim(str) # <<>>
  /\ MathChars(str) >= MathLineTriggers
  /\ Len(str) < MathLineLength

textWithoutPlaceholders(processedText) ==
  SelectSeq(processedText, LAMBDA s : ~IsPlaceholder(s, 2 * Len(processedText)))

\* the condition of Strategy 1
WholeSpanWithFormulas(formulas, residue) == isMathLine(residue)

WholeSpan(formulas, residue) == formulas = <<>> /\ isMathLine(residue)

NoFormulas == [processedText |-> <<>>, formulas |-> <<>>, formulaIndex |-> 0]

Restart(acc) == [acc EXCEPT !.processedText = <<>>]

extractLatexFormulas(text) ==
  LET p1 == ReplaceDelimited(text, 1, <<"\\[">>, <<"\\]">>, "block",
                             NoFormulas)
      p2 == ReplaceDelimited(p1.processedText, 1, <<"$", "$">>, <<"$", "$">>,
                             "block", Restart(p1))
      p3 == ReplaceDelimited(p2.processedText, 1, <<"\\(">>, <<"\\)">>,
                             "inline", Restart(p2))
      p4 == ReplaceInlineDollar(p3.processedText, 1, Restart(p3))
      p5 == IF WholeSpan(p4.formulas, textWithoutPlaceholders(p4.processedText))
              THEN [processedText |-> <<PlaceholderOf("block", p4.formulaIndex)>>,
                    formulas |-> <<FormulaOf("block", p4.processedText,
                                             p4.formulaIndex)>>,
                    formulaIndex |-> p4.formulaIndex]
              ELSE ReplaceNaked(p4.processedText, 1, Restart(p4))
  IN  [processedText |-> p5.processedText, formulas |-> p5.formulas]

\* hasLatexFormula: /\$\$?[\s\S]*?\$\$?/ finds two dollar signs anywhere
hasLatexFormula(text) ==
  \/ \E i, j \in DOMAIN text : i < j /\ text[i] = "$" /\ text[j] = "$"
  \/ \E i, j \in DOMAIN text : i < j /\ text[i] = "\\[" /\ text[j] = "\\]"
  \/ \E i, j \in DOMAIN text : i < j /\ text[i] = "\\(" /\ text[j] = "\\)"
  \/ \E i \in DOMAIN text : text[i] \in NakedCommands

\* String.prototype.replace with a string pattern, the replacement string:
\* "$$" stands for one dollar sign and "$&" for the matched text
RECURSIVE ExpandReplacement(_, _)
ExpandReplacement(replacement, matched) ==
  IF replacement = <<>> THEN <<>>
  ELSE IF Len(replacement) >= 2 /\ replacement[1] = "$"
          /\ replacement[2] \in {"$", "&"}
    THEN <<IF replacement[2] = "$" THEN "$" ELSE matched>>
           \o ExpandReplacement(SubSeq(replacement, 3, Len(replacement)), matched)
    ELSE <<Head(replacement)>> \o ExpandReplacement(Tail(replacement), matched)

\* text.replace(pattern, replacement) for a one-symbol pattern: the first
\* occurrence only
ReplaceFirst(text, pattern, replacement) ==
  LET i == FirstAt(text, 1, <<pattern>>)
  IN  IF i = 0 THEN text
      ELSE SubSeq(text, 1, i - 1) \o ExpandReplacement(replacement, pattern)
             \o SubSeq(text, i + 1, Len(text))

\* formulas.forEach(f => headingText = headingText.replace(f.placeholder,
\* f.formula))
RECURSIVE ReplacePlaceholders(_, _)
ReplacePlaceholders(text, formulas) ==
  IF formulas = <<>> THEN text
  ELSE ReplacePlaceholders(
         ReplaceFirst(text, Head(formulas).placeholder, Head(formulas).formula),
         Tail(formulas))

\* case 'heading' (lines 418-426): headingText
HeadingTextOf(text) ==
  IF hasLatexFormula(text)
    THEN LET extracted == extractLatexFormulas(text)
         IN  ReplacePlaceholders(extracted.processedText, extracted.formulas)
    ELSE text

(***************************************************************************)
(* Output: docx elements and runs.                                         *)
(***************************************************************************)
TextRunOf(text, italics, options) ==
  [run |-> "text", text |-> text, italics |-> italics, options |-> options]

ImageRunOf(imageData) == [run |-> "image", image |-> imageData]

\* a heading level that follows the depth beyond 4
HeadingLevelUncapped(depth) == IF depth >= 2 THEN depth ELSE 1

HeadingLevelOf(depth) ==
  IF depth >= 4 THEN 4 ELSE IF depth = 3 THEN 3 ELSE IF depth = 2 THEN 2 ELSE 1

\* spacing: { before, after } chosen with the heading level
HeadingSpacingOf(depth) ==
  IF depth >= 4 THEN [before |-> 120, after |-> 60]
  ELSE IF depth = 3 THEN [before |-> 160, after |-> 80]
  ELSE IF depth = 2 THEN [before |-> 200, after |-> 100]
  ELSE [before |-> 240, after |-> 120]

HeadingParagraph(depth, runs) ==
  [el |-> "heading", level |-> HeadingLevelOf(depth), children |-> runs,
   spacing |-> HeadingSpacingOf(depth), border |-> (depth = 1)]

BodyParagraph(runs) == [el |-> "paragraph", children |-> runs]

BulletParagraph(runs) == [el |-> "bullet", children |-> runs]

maxWidth == 550

minWidth == 400

\* Math.round(n / d) for positive n and d, the quotient taken exactly
Round(n, d) == (2 * n + d) \div (2 * d)

\* a display size that keeps the native size whatever the width
NativeSize(w, h) == [width |-> w, height |-> h]

\* case 'code', lang mermaid (lines 485-504): the display size of a diagram
\* of native size w x h
DisplaySize(w, h) ==
  IF w > maxWidth
    THEN [width |-> maxWidth, height |-> Round(h * maxWidth, w)]
    ELSE IF w < minWidth
      THEN LET finalWidth == Min(minWidth, maxWidth)
           IN  [width |-> finalWidth, height |-> Round(h * finalWidth, w)]
      ELSE [width |-> w, height |-> h]

DiagramRunOf(imageData) ==
  [run |-> "image", image |-> imageData,
   transformation |-> DisplaySize(imageData.width, imageData.height)]

ImageParagraph(imageData) ==
  [el |-> "image", children |-> <<DiagramRunOf(imageData)>>,
   alignment |-> "center"]

CodeParagraph(line) ==
  [el |-> "code", children |-> <<TextRunOf(line, FALSE, "code")>>]

CodeParagraphs(text) ==
  LET lines == SplitOn(text, "\n")
  IN  [i \in DOMAIN lines |-> CodeParagraph(lines[i])]

TableElement(rows) == [el |-> "table", rows |-> rows]

BlankParagraph == [el |-> "blank", children |-> <<>>]

RuleParagraph == [el |-> "rule", children |-> <<>>]

(***************************************************************************)
(* calculateColumnWidths (lines 243-295).  A cell text is a sequence of    *)
(* UTF-16 code units, which is what text.split('') yields: a letter, or    *)
(* "U+hhhh" for the unit of that code; a character outside the basic      *)
(* plane is two units.  A width is the exact quotient num / den of the     *)
(* division the code performs.                                             *)
(***************************************************************************)
\* char.charCodeAt(0) of the code units used here; letters are ASCII
charCodeAt(char) ==
  CASE char = "U+00D7" -> 215
    [] char = "U+00FF" -> 255
    [] char = "U+0100" -> 256
    [] char \in {"U+5E8F", "U+53F7", "U+63CF", "U+8FF0", "U+5F88", "U+957F",
                 "U+7684", "U+5217", "U+6807", "U+9898", "U+5907", "U+6CE8"}
         -> 20000
    [] char \in {"U+D83D", "U+DE00"} -> 55000
    [] OTHER -> 97

\* text.split('').reduce((sum, char) => sum + (charCodeAt(0) > 255 ? 2 : 1), 0)
RECURSIVE TextLength(_)
TextLength(text) ==
  IF text = <<>> THEN 0
  ELSE (IF charCodeAt(Head(text)) > 255 THEN 2 ELSE 1) + TextLength(Tail(text))

\* row[col]?.text || ''
CellText(row, col) == IF col \in DOMAIN row THEN row[col].text ELSE <<>>

RECURSIVE MaxOf(_)
MaxOf(lengths) ==
  IF lengths = <<>> THEN 0 ELSE Max(Head(lengths), MaxOf(Tail(lengths)))

\* columnLengths[col]: the widest cell of the column over header and rows
ColumnLength(allCells, col) ==
  MaxOf([r \in DOMAIN allCells |-> TextLength(CellText(allCells[r], col))])

availableWidth == 10466

minColumnWidth == 1000

shortColumnThreshold == 4

\* a threshold that leaves a column of exactly 4 units regular
IsShortBelowThreshold(len) == len < shortColumnThreshold

IsShort(len) == len <= shortColumnThreshold

Quotient(n, d) == [num |-> n, den |-> d]

\* lines 279-281
RegularWidth(numShortColumns, numRegularColumns) ==
  LET totalMinWidth == numShortColumns * minColumnWidth
      remainingWidth == availableWidth - totalMinWidth
  IN  Quotient(remainingWidth, numRegularColumns)

calculateColumnWidths(tbl) ==
  LET allCells == <<tbl.header>> \o tbl.rows
      numColumns == Len(tbl.header)
      columnLengths == [col \in 1..numColumns |-> ColumnLength(allCells, col)]
      shortColumns == [col \in 1..numColumns |-> IsShort(columnLengths[col])]
      numShortColumns == Cardinality({col \in 1..numColumns : shortColumns[col]})
      numRegularColumns == numColumns - numShortColumns
  IN  IF numRegularColumns > 0
        THEN [i \in 1..numColumns |->
                IF shortColumns[i]
                  THEN Quotient(minColumnWidth, 1)
                  ELSE RegularWidth(numShortColumns, numRegularColumns)]
        ELSE [i \in 1..numColumns |-> Quotient(availableWidth, numColumns)]

(***************************************************************************)
(* The two module-level caches and the rasterizers.                        *)
(***************************************************************************)
MermaidCacheSize == 100

FormulaCacheSize == 200

\* renderLatexToImage(formula, displayMode): an image or null
RenderLatexResults(formula, displayMode, mayFail) ==
  {Image(formula, displayMode)} \cup (IF mayFail THEN {Null} ELSE {})

\* renderMermaidToImage(code): an image or null
RenderMermaidResults(code, mayFail) ==
  {Image(code, FALSE)} \cup (IF mayFail THEN {Null} ELSE {})

(***************************************************************************)
(* processMixedContent, first half (lines 302-338): every formula of every *)
(* span started together looks the formula cache up, in order, and on a    *)
(* miss calls the rasterizer and suspends; nothing is stored before the    *)
(* first of these calls completes.                                         *)
(***************************************************************************)
GroupFormulas(spans) ==
  Flatten([s \in DOMAIN spans |->
             LET fs == EffectiveFormulas(spans[s].span)
             IN  [j \in DOMAIN fs |-> [span |-> s, f |-> fs[j]]]])

RECURSIVE IssueFormulas(_, _)
IssueFormulas(todo, acc) ==
  IF todo = <<>> THEN acc
  ELSE LET t == Head(todo)
           key == t.f.formula
           got == LRUGet(acc.cache, key)
           hit == got.value # Undefined
           task == [span |-> t.span, f |-> t.f,
                    status |-> IF hit THEN "done" ELSE "pending",
                    imageData |-> got.value]
       IN  IssueFormulas(Tail(todo),
             [cache |-> got.cache,
              tasks |-> Append(acc.tasks, task),
              lookups |-> Append(acc.lookups,
                            [cache |-> "formula", key |-> key, hit |-> hit]),
              calls |-> IF hit THEN acc.calls
                        ELSE Append(acc.calls,
                               [rasterizer |-> "latex", key |-> key,
                                display |-> (t.f.type = "block")])])

(***************************************************************************)
(* processMixedContent, second half (lines 343-381): the runs of one span. *)
(***************************************************************************)
\* the rendered formula the parts loop finds for a placeholder
RenderedFor(promises, s, placeholder) ==
  LET mine == SelectSeq(promises, LAMBDA t : t.span = s /\ t.f.placeholder = placeholder)
  IN  Head(mine)

PartRuns(piece, i, promises, s, options) ==
  IF piece.kind = "formula"
    THEN LET rendered == RenderedFor(promises, s, i)
         IN  IF rendered.imageData.kind = "image"
               THEN <<ImageRunOf(rendered.imageData)>>
               ELSE <<TextRunOf(rendered.f.formula, TRUE, options)>>
    ELSE IF Trim(<<piece.formula>>) # <<>>
           THEN <<TextRunOf(piece.formula, FALSE, options)>>
           ELSE <<>>

SpanRuns(span, promises, s, options) ==
  IF span.detected
    THEN IF ExtractedFormulas(span) = <<>>
           \* parts = [placeholder]; "[[FORMULA_BLOCK_NAKED]]" does not match
           \* the placeholder pattern of the parts loop and is emitted as text
           THEN <<TextRunOf("[[FORMULA_BLOCK_NAKED]]", FALSE, options)>>
           ELSE Flatten([i \in DOMAIN span.pieces |->
                           PartRuns(span.pieces[i], i, promises, s, options)])
    ELSE Flatten([i \in DOMAIN span.pieces |->
                    <<TextRunOf(span.pieces[i].formula, FALSE, options)>>])

\* case 'heading' (lines 418-431): processTextWithHtml(headingText)
HeadingRuns(text) == <<TextRunOf(HeadingTextOf(text), FALSE, "")>>

(***************************************************************************)
(* Input documents of SpecRun.                                             *)
(***************************************************************************)
MaxTokens == 2

MaxItems == 2

MaxRows == 1

TableCols == 2

PlainSpan == Span(FALSE, <<TextPiece("t")>>, "t")

\* detection fires, nothing is extracted (e.g. the text "$$")
NakedSpan == Span(TRUE, <<TextPiece("n")>>, "n")

InlineX == FormulaPiece("inline", "x")

BlockX == FormulaPiece("block", "x")

InlineY == FormulaPiece("inline", "y")

\* spans with extracted formulas: one formula, the same formula twice, two
\* formulas, the same source as inline and as block, text around a formula,
\* a space between two formulas
MathSpans ==
  {Span(TRUE, ps, "m") :
     ps \in {<<InlineX>>, <<BlockX>>, <<InlineX, InlineX>>, <<InlineX, InlineY>>,
             <<InlineX, BlockX>>, <<TextPiece("t"), InlineX>>,
             <<InlineY, TextPiece("t")>>,
             <<InlineX, TextPiece(" "), InlineY>>}}

ParagraphSpans == {PlainSpan, NakedSpan} \cup MathSpans

CellSpans == {PlainSpan, Span(TRUE, <<InlineX>>, "m")}

TableRowsOf == {<<PlainSpan, Span(TRUE, <<InlineX>>, "m")>>,
                <<Span(TRUE, <<InlineX>>, "m"), Span(TRUE, <<InlineX>>, "m")>>,
                <<Span(TRUE, <<InlineY>>, "m"), Span(TRUE, <<InlineX>>, "m")>>}

CodeTexts == {<<"d">>, <<" ", "d">>, <<"e", "\n", "e">>}

ParagraphToken(span) == [type |-> "paragraph", span |-> span]

ListToken(items) == [type |-> "list", items |-> items]

CodeToken(lang, text) == [type |-> "code", lang |-> lang, text |-> text]

TableToken(header, rows) == [type |-> "table", header |-> header, rows |-> rows]

HeadingToken(depth, text) == [type |-> "heading", depth |-> depth, text |-> text]

BlockTokens ==
  {ParagraphToken(sp) : sp \in ParagraphSpans}
  \cup {ListToken(items) : items \in NonEmptySeqsUpTo(CellSpans, MaxItems)}
  \cup {CodeToken("mermaid", text) : text \in CodeTexts}
  \cup {CodeToken("js", <<"e", "\n", "e">>)}
  \cup {TableToken(header, rows) :
          header \in TableRowsOf, rows \in SeqsUpTo(TableRowsOf, MaxRows)}
  \cup {HeadingToken(1, <<"t">>), HeadingToken(2, <<"$", "x", "$">>)}
  \cup {[type |-> "hr"], [type |-> "space"], [type |-> "html"]}

\* Long documents, to fill the caches: n distinct diagrams and then the
\* first one again; m paragraphs of one distinct formula each.  Their
\* sources are numerals, and the rasterizers accept them.
FillerKeys == {ToString(i) : i \in 1..(FormulaCacheSize + 1)}

LongDiagrams(n) ==
  [i \in 1..(n + 1) |->
     CodeToken("mermaid", <<ToString(IF i <= n THEN i ELSE 1)>>)]

LongFormulas(m) ==
  [i \in 1..m |->
     ParagraphToken(Span(TRUE, <<FormulaPiece("inline", ToString(i))>>, "m"))]

LongDocuments ==
  {LongDiagrams(MermaidCacheSize),
   LongDiagrams(MermaidCacheSize + 1) \o LongFormulas(FormulaCacheSize + 1)}

Documents == SeqsUpTo(BlockTokens, MaxTokens) \cup LongDocuments

\* formula sources are symbols, diagram sources are symbol sequences
MayFail(key) == key \notin FillerKeys /\ key \notin {<<k>> : k \in FillerKeys}

(***************************************************************************)
(* SpecRun: state of the generator.                                        *)
(*   mermaidImageCache, formulaImageCache - the module-level caches        *)
(*   pc           - "idle", "loop" (processTokens between two awaits),     *)
(*                  "mermaid" (awaiting renderMermaidToImage), "mixed"     *)
(*                  (awaiting the formulas of the spans started together), *)
(*                  "done" (the blob was returned)                         *)
(*   tokens       - the token list of the current run                      *)
(*   index, sub   - loop position: token, and list item / table row in it  *)
(*   group        - the spans started together, each with its run options  *)
(*   tasks        - their formula promises                                 *)
(*   tableRows    - rows of the current table built so far                 *)
(*   docxElements - the output so far                                      *)
(*   lookups, calls - this run's cache lookups and rasterizer invocations  *)
(*   earlier      - tracked keys the caches held when this run started     *)
(***************************************************************************)
TrackedKeys == {<<"formula", "x">>, <<"mermaid", <<"d">>>>}

HeldKeys ==
  {<<"formula", k>> : k \in CacheKeys(formulaImageCache)}
  \cup {<<"mermaid", k>> : k \in CacheKeys(mermaidImageCache)}

InitRun ==
  /\ mermaidImageCache = <<>>
  /\ formulaImageCache = <<>>
  /\ pc = "idle"
  /\ tokens = <<>>
  /\ index = 1
  /\ sub = 0
  /\ group = <<>>
  /\ tasks = <<>>
  /\ tableRows = <<>>
  /\ docxElements = <<>>
  /\ lookups = <<>>
  /\ calls = <<>>
  /\ earlier = {}

\* a start that keeps what earlier runs stored
KeptCache(cache) == cache

\* lines 661-662
ClearedCache(cache) == LRUClear(cache)

\* generateWordDocument, lines 659-705: clear both caches, normalize, lex,
\* enter processTokens
StartRun(doc) ==
  /\ pc = "idle"
  /\ earlier' = HeldKeys \cap TrackedKeys
  /\ mermaidImageCache' = ClearedCache(mermaidImageCache)
  /\ formulaImageCache' = ClearedCache(formulaImageCache)
  /\ tokens' = doc
  /\ pc' = "loop"
  /\ UNCHANGED <<index, sub, group, tasks, tableRows, docxElements, lookups,
                 calls>>
  /\ UNCHANGED <<cacheVars, normVars, inlineVars, extractVars, blockVars,
                 widthVars, downloadVars, overlapVars>>

AtToken(type) ==
  /\ pc = "loop"
  /\ index <= Len(tokens)
  /\ tokens[index].type = type

\* what a step of the loop that starts no rasterization leaves alone
NoRender ==
  UNCHANGED <<mermaidImageCache, formulaImageCache, tokens, group, tasks,
              tableRows, lookups, calls, earlier>>

\* a loop that puts the blocks of a token in front of the earlier ones
NextTokenInFront(elements) ==
  /\ docxElements' = elements \o docxElements
  /\ index' = index + 1
  /\ sub' = 0
  /\ pc' = "loop"

NextToken(elements) ==
  /\ docxElements' = docxElements \o elements
  /\ index' = index + 1
  /\ sub' = 0
  /\ pc' = "loop"

\* case 'heading'
ProcessHeading ==
  /\ AtToken("heading")
  /\ NextToken(<<HeadingParagraph(tokens[index].depth,
                                  HeadingRuns(tokens[index].text))>>)
  /\ NoRender
  /\ UNCHANGED <<cacheVars, normVars, inlineVars, extractVars, blockVars,
                 widthVars, downloadVars, overlapVars>>

\* case 'code', not a diagram
ProcessCode ==
  /\ AtToken("code")
  /\ tokens[index].lang # "mermaid"
  /\ NextToken(CodeParagraphs(tokens[index].text))
  /\ NoRender
  /\ UNCHANGED <<cacheVars, normVars, inlineVars, extractVars, blockVars,
                 widthVars, downloadVars, overlapVars>>

\* case 'space'
ProcessSpace ==
  /\ AtToken("space")
  /\ NextToken(<<>>)
  /\ NoRender
  /\ UNCHANGED <<cacheVars, normVars, inlineVars, extractVars, blockVars,
                 widthVars, downloadVars, overlapVars>>

\* case 'hr'
ProcessHr ==
  /\ AtToken("hr")
  /\ NextToken(<<RuleParagraph>>)
  /\ NoRender
  /\ UNCHANGED <<cacheVars, normVars, inlineVars, extractVars, blockVars,
                 widthVars, downloadVars, overlapVars>>

\* default: unhandled token type
ProcessUnhandled ==
  /\ pc = "loop"
  /\ index <= Len(tokens)
  /\ tokens[index].type
       \notin {"heading", "paragraph", "list", "code", "table", "space", "hr"}
  /\ NextToken(<<>>)
  /\ NoRender
  /\ UNCHANGED <<cacheVars, normVars, inlineVars, extractVars, blockVars,
                 widthVars, downloadVars, overlapVars>>

\* a failed diagram that leaves nothing in the document
FailedDiagramDropped(imageData, text) ==
  IF imageData.kind = "image" THEN <<ImageParagraph(imageData)>> ELSE <<>>

\* case 'code', lang mermaid: what is emitted for the image data
MermaidElements(imageData, text) ==
  IF imageData.kind = "image"
    THEN <<ImageParagraph(imageData)>>
    ELSE CodeParagraphs(text)

\* a render whose result is not stored
NotStoredDiagram(cache, key, imageData) == cache

\* the value stored for a diagram after rendering
StoredDiagram(cache, key, imageData) ==
  LRUSet(cache, MermaidCacheSize, key, imageData)

\* case 'code', lang mermaid (lines 468-475): look the trimmed source up
BeginMermaid ==
  /\ AtToken("code")
  /\ tokens[index].lang = "mermaid"
  /\ LET cacheKey == Trim(tokens[index].text)
         got == LRUGet(mermaidImageCache, cacheKey)
         hit == got.value # Undefined
     IN  /\ mermaidImageCache' = got.cache
         /\ lookups' = Append(lookups,
                         [cache |-> "mermaid", key |-> cacheKey, hit |-> hit])
         /\ IF hit
              THEN /\ NextToken(MermaidElements(got.value, tokens[index].text))
                   /\ UNCHANGED calls
              ELSE /\ calls' = Append(calls,
                          [rasterizer |-> "mermaid", key |-> cacheKey,
                           display |-> FALSE])
                   /\ pc' = "mermaid"
                   /\ UNCHANGED <<docxElements, index, sub>>
  /\ UNCHANGED <<formulaImageCache, tokens, group, tasks, tableRows, earlier>>
  /\ UNCHANGED <<cacheVars, normVars, inlineVars, extractVars, blockVars,
                 widthVars, downloadVars, overlapVars>>

\* renderMermaidToImage resolves: store the result, emit the block
MermaidDone ==
  /\ pc = "mermaid"
  /\ LET cacheKey == Trim(tokens[index].text)
     IN  \E imageData \in RenderMermaidResults(cacheKey, MayFail(cacheKey)) :
           /\ mermaidImageCache' =
                StoredDiagram(mermaidImageCache, cacheKey, imageData)
           /\ NextToken(MermaidElements(imageData, tokens[index].text))
  /\ UNCHANGED <<formulaImageCache, tokens, group, tasks, tableRows,
                 lookups, calls, earlier>>
  /\ UNCHANGED <<cacheVars, normVars, inlineVars, extractVars, blockVars,
                 widthVars, downloadVars, overlapVars>>

\* the spans the loop starts together at (index, sub), with their options
CurrentGroup ==
  LET token == tokens[index]
  IN  CASE token.type = "paragraph" ->
             <<[span |-> token.span, options |-> ""]>>
        [] token.type = "list" ->
             <<[span |-> token.items[sub + 1], options |-> ""]>>
        [] token.type = "table" ->
             IF sub = 0
               THEN [c \in DOMAIN token.header |->
                       [span |-> token.header[c], options |-> "bold"]]
               ELSE [c \in DOMAIN token.rows[sub] |->
                       [span |-> token.rows[sub][c], options |-> ""]]

\* case 'paragraph' / 'list' item / 'table' row: processMixedContent is
\* entered for every span of the group before any rasterization completes
BeginMixed ==
  /\ pc = "loop"
  /\ index <= Len(tokens)
  /\ tokens[index].type \in {"paragraph", "list", "table"}
  /\ LET issued == IssueFormulas(GroupFormulas(CurrentGroup),
                     [cache |-> formulaImageCache, tasks |-> <<>>,
                      lookups |-> lookups, calls |-> calls])
     IN  /\ group' = CurrentGroup
         /\ formulaImageCache' = issued.cache
         /\ tasks' = issued.tasks
         /\ lookups' = issued.lookups
         /\ calls' = issued.calls
  /\ pc' = "mixed"
  /\ UNCHANGED <<mermaidImageCache, tokens, index, sub, tableRows,
                 docxElements, earlier>>
  /\ UNCHANGED <<cacheVars, normVars, inlineVars, extractVars, blockVars,
                 widthVars, downloadVars, overlapVars>>

\* renderLatexToImage resolves for one formula promise (lines 330-332)
RenderDone(i) ==
  /\ pc = "mixed"
  /\ i \in DOMAIN tasks
  /\ tasks[i].status = "pending"
  /\ LET f == tasks[i].f
     IN  \E imageData \in
              RenderLatexResults(f.formula, f.type = "block", MayFail(f.formula)) :
           /\ formulaImageCache' =
                LRUSet(formulaImageCache, FormulaCacheSize, f.formula, imageData)
           /\ tasks' = [tasks EXCEPT ![i].status = "done",
                                     ![i].imageData = imageData]
  /\ UNCHANGED <<mermaidImageCache, pc, tokens, index, sub, group, tableRows,
                 docxElements, lookups, calls, earlier>>
  /\ UNCHANGED <<cacheVars, normVars, inlineVars, extractVars, blockVars,
                 widthVars, downloadVars, overlapVars>>

\* Promise.all resolved: build the runs of every span of the group and
\* emit the paragraph, list item or table row
\* a resolver that does not wait for its promises
NoneAwaited(promises) == TRUE

\* await Promise.all(formulaPromises) of every span of the group
AllSettled(promises) == \A i \in DOMAIN promises : promises[i].status = "done"

FinishMixed ==
  /\ pc = "mixed"
  /\ AllSettled(tasks)
  /\ LET token == tokens[index]
         runs == [s \in DOMAIN group |->
                    SpanRuns(group[s].span, tasks, s, group[s].options)]
     IN  CASE token.type = "paragraph" ->
                /\ NextToken(<<BodyParagraph(runs[1])>>)
                /\ UNCHANGED tableRows
           [] token.type = "list" ->
                /\ docxElements' = Append(docxElements, BulletParagraph(runs[1]))
                /\ IF sub + 1 < Len(token.items)
                     THEN sub' = sub + 1 /\ UNCHANGED index
                     ELSE sub' = 0 /\ index' = index + 1
                /\ pc' = "loop"
                /\ UNCHANGED tableRows
           [] token.type = "table" ->
                IF sub < Len(token.rows)
                  THEN /\ tableRows' = Append(tableRows, runs)
                       /\ sub' = sub + 1
                       /\ pc' = "loop"
                       /\ UNCHANGED <<index, docxElements>>
                  ELSE /\ NextToken(<<TableElement(Append(tableRows, runs)),
                                      BlankParagraph>>)
                       /\ tableRows' = <<>>
  /\ group' = <<>>
  /\ tasks' = <<>>
  /\ UNCHANGED <<mermaidImageCache, formulaImageCache, tokens, lookups,
                 calls, earlier>>
  /\ UNCHANGED <<cacheVars, normVars, inlineVars, extractVars, blockVars,
                 widthVars, downloadVars, overlapVars>>

\* processTokens returns; the document is packed and the blob returned
FinishRun ==
  /\ pc = "loop"
  /\ index > Len(tokens)
  /\ pc' = "done"
  /\ UNCHANGED <<mermaidImageCache, formulaImageCache, tokens, index, sub,
                 group, tasks, tableRows, docxElements, lookups, calls, earlier>>
  /\ UNCHANGED <<cacheVars, normVars, inlineVars, extractVars, blockVars,
                 widthVars, downloadVars, overlapVars>>

\* the call is over: its locals are gone, the module-level caches remain
Return ==
  /\ pc = "done"
  /\ pc' = "idle"
  /\ tokens' = <<>>
  /\ index' = 1
  /\ sub' = 0
  /\ docxElements' = <<>>
  /\ lookups' = <<>>
  /\ calls' = <<>>
  /\ earlier' = {}
  /\ UNCHANGED <<mermaidImageCache, formulaImageCache, group, tasks, tableRows>>
  /\ UNCHANGED <<cacheVars, normVars, inlineVars, extractVars, blockVars,
                 widthVars, downloadVars, overlapVars>>

NextRun ==
  \/ \E doc \in Documents : StartRun(doc)
  \/ ProcessHeading
  \/ ProcessCode
  \/ ProcessSpace
  \/ ProcessHr
  \/ ProcessUnhandled
  \/ BeginMermaid
  \/ MermaidDone
  \/ BeginMixed
  \/ \E i \in 1..(2 * TableCols) : RenderDone(i)
  \/ FinishMixed
  \/ FinishRun
  \/ Return

(***************************************************************************)
(* The text normalizer of generateWordDocument (lines 664-698): smart       *)
(* dedent, then per-line whitespace collapsing.  A text is a sequence of    *)
(* characters; "\n" separates lines.  "U+3000" and "U+00A0" stand for the   *)
(* full-width and the no-break space, "\f" for a whitespace character that  *)
(* \s matches and the collapsing pattern does not.                          *)
(*                                                                         *)
(*   markdownText       - the text given to the first pass                  *)
(*   dedentedText       - dedentedText of the latest pass                   *)
(*   normalizedMarkdown - normalizedMarkdown of the latest pass             *)
(*   previous           - the text given to the latest pass when it is not  *)
(*                        the first: the output of the pass before          *)
(*   passes             - number of passes made                             *)
(***************************************************************************)
\* Array.prototype.join(sep) on sequences of symbols
RECURSIVE JoinOn(_, _)
JoinOn(lines, sep) ==
  IF Len(lines) = 0 THEN <<>>
  ELSE IF Len(lines) = 1 THEN lines[1]
  ELSE lines[1] \o <<sep>> \o JoinOn(Tail(lines), sep)

\* line.match(/^\s*/)?.[0].length || 0
IndentOf(line) == Len(line) - Len(TrimStart(line))

\* the three backquotes of a fence marker
Backquote == "backquote"

Fence == <<Backquote, Backquote, Backquote>>

MaxLines == 3

Indents == {<<>>, <<" ">>, <<" ", " ">>, <<"\t">>, <<" ", "\t">>}

Bodies ==
  {<<>>, <<"a">>, <<"a", " ", " ", "b">>, <<"a", "\t", "b">>,
   Fence, <<"\f", "a">>}

Lines == {indent \o body : indent \in Indents, body \in Bodies}

Texts == {JoinOn(ls, "\n") : ls \in NonEmptySeqsUpTo(Lines, MaxLines)}

\* let minIndent = Infinity: more than the indent of any line
Infinity == 1 + Max(Len(markdownText), Len(previous))

\* the loop of lines 669-677 over the remaining lines
RECURSIVE ScanIndent(_, _)
ScanIndent(lines, acc) ==
  IF lines = <<>> THEN acc
  ELSE LET line == Head(lines)
       IN  IF Len(Trim(line)) > 0
             THEN ScanIndent(Tail(lines),
                    [hasNonEmptyLine |-> TRUE,
                     minIndent |-> IF IndentOf(line) < acc.minIndent
                                     THEN IndentOf(line) ELSE acc.minIndent])
             ELSE ScanIndent(Tail(lines), acc)

\* a scan that does not skip blank lines
ScanIndentOfAllLines(lines) ==
  [hasNonEmptyLine |-> \E i \in DOMAIN lines : Len(Trim(lines[i])) > 0,
   minIndent |-> IF lines = <<>> THEN Infinity
                 ELSE CHOOSE n \in {IndentOf(lines[i]) : i \in DOMAIN lines} :
                        \A i \in DOMAIN lines : n <= IndentOf(lines[i])]

MinIndent(lines) ==
  ScanIndent(lines, [hasNonEmptyLine |-> FALSE, minIndent |-> Infinity])

\* a dedent that strips one column whatever minIndent is
DedentOneColumn(text) ==
  LET lines == SplitOn(text, "\n")
      scan == MinIndent(lines)
  IN  IF scan.hasNonEmptyLine /\ scan.minIndent > 0 /\ scan.minIndent # Infinity
        THEN JoinOn([i \in DOMAIN lines |->
                       IF Len(lines[i]) >= 1
                         THEN SubSeq(lines[i], 2, Len(lines[i]))
                         ELSE lines[i]], "\n")
        ELSE text

\* lines 664-687
Dedent(text) ==
  LET lines == SplitOn(text, "\n")
      scan == MinIndent(lines)
  IN  IF scan.hasNonEmptyLine /\ scan.minIndent > 0 /\ scan.minIndent # Infinity
        THEN JoinOn([i \in DOMAIN lines |->
                       IF Len(lines[i]) >= scan.minIndent
                         THEN SubSeq(lines[i], scan.minIndent + 1, Len(lines[i]))
                         ELSE lines[i]], "\n")
        ELSE text

CollapsibleSpace == {" ", "\t", "U+3000", "U+00A0"}

RECURSIVE SkipCollapsible(_)
SkipCollapsible(s) ==
  IF s # <<>> /\ Head(s) \in CollapsibleSpace THEN SkipCollapsible(Tail(s)) ELSE s

\* replace(/[ \t\u3000\u00A0]+/g, ' ')
RECURSIVE CollapseSpaces(_)
CollapseSpaces(s) ==
  IF s = <<>> THEN <<>>
  ELSE IF Head(s) \in CollapsibleSpace
         THEN <<" ">> \o CollapseSpaces(SkipCollapsible(s))
         ELSE <<Head(s)>> \o CollapseSpaces(Tail(s))

\* line.trim().startsWith('```')
StartsWithFence(line) ==
  LET t == Trim(line)
  IN  Len(t) >= 3 /\ SubSeq(t, 1, 3) = Fence

NormalizeLine(line) ==
  IF StartsWithFence(line) THEN line ELSE CollapseSpaces(line)

\* lines 689-698
NormalizeWhitespace(text) ==
  LET lines == SplitOn(text, "\n")
  IN  JoinOn([i \in DOMAIN lines |-> NormalizeLine(lines[i])], "\n")

MaxPasses == 2

InitNorm ==
  /\ markdownText \in Texts
  /\ dedentedText = <<>>
  /\ normalizedMarkdown = <<>>
  /\ previous = <<>>
  /\ passes = 0

\* the normalizer applied to the text
Normalize ==
  /\ passes = 0
  /\ dedentedText' = Dedent(markdownText)
  /\ normalizedMarkdown' = NormalizeWhitespace(Dedent(markdownText))
  /\ passes' = 1
  /\ UNCHANGED <<markdownText, previous>>
  /\ UNCHANGED <<cacheVars, runVars, inlineVars, extractVars, blockVars,
                 widthVars, downloadVars, overlapVars>>

\* the normalizer applied to its own output
NormalizeAgain ==
  /\ passes >= 1
  /\ passes < MaxPasses
  /\ previous' = normalizedMarkdown
  /\ dedentedText' = Dedent(normalizedMarkdown)
  /\ normalizedMarkdown' = NormalizeWhitespace(Dedent(normalizedMarkdown))
  /\ passes' = passes + 1
  /\ UNCHANGED markdownText
  /\ UNCHANGED <<cacheVars, runVars, inlineVars, extractVars, blockVars,
                 widthVars, downloadVars, overlapVars>>

NextNorm ==
  \/ Normalize
  \/ NormalizeAgain

(***************************************************************************)
(* The inline run builder: processInlineTokens (lines 175-234),             *)
(* processTextWithHtml (81-136) and splitTextWithEmoji (139-173).           *)
(*                                                                         *)
(* Text is a sequence of symbols; "<br>", "<b>", "</b>" and Emoji each      *)
(* stand for one match of the corresponding pattern.  An inline token is    *)
(* what marked answers: [type, raw, text, hasTokens, tokens].  A run is     *)
(* [text, break, options]; an option that is not set is "unset".  Two       *)
(* specification-side annotations travel with a run: path, the types of     *)
(* the tokens from the root to the leaf it comes from, and part, the kind   *)
(* of piece of the leaf's text it comes from.                               *)
(*                                                                         *)
(*   inlineTokens     - the token sequence given to the builder             *)
(*   inheritedOptions - the run options given with it                       *)
(*   inlineRuns       - the runs answered                                   *)
(*   built            - whether the builder has answered                    *)
(***************************************************************************)
Emoji == "emoji"

NoOptions ==
  [bold |-> "unset", italics |-> "unset", strike |-> "unset",
   font |-> "unset", shading |-> "unset", color |-> "unset",
   underline |-> "unset", size |-> "unset"]

\* new TextRun({ text: "", break: 1 })
BreakRun(path) ==
  [text |-> <<>>, break |-> TRUE, options |-> NoOptions,
   path |-> path, part |-> "break"]

\* new TextRun({ text, ...baseOptions, [bold: true,] font: ... })
StyledRun(piece, baseOptions, bold, path) ==
  [text |-> piece.text, break |-> FALSE,
   options |-> [baseOptions EXCEPT
                  !.bold = IF bold THEN "true" ELSE @,
                  !.font = IF piece.isEmoji THEN "Segoe UI Emoji" ELSE @],
   path |-> path, part |-> IF bold THEN "bold" ELSE "text"]

\* length of the text before the first emoji
RECURSIVE PlainPrefix(_)
PlainPrefix(s) ==
  IF s = <<>> \/ Head(s) = Emoji THEN 0 ELSE 1 + PlainPrefix(Tail(s))

RECURSIVE splitTextWithEmoji(_)
splitTextWithEmoji(text) ==
  IF text = <<>> THEN <<>>
  ELSE IF Head(text) = Emoji
         THEN <<[text |-> <<Emoji>>, isEmoji |-> TRUE]>>
              \o splitTextWithEmoji(Tail(text))
         ELSE LET n == PlainPrefix(text)
              IN  <<[text |-> SubSeq(text, 1, n), isEmoji |-> FALSE]>>
                  \o splitTextWithEmoji(SubSeq(text, n + 1, Len(text)))

\* where <b>.*?</b> ends when it matches at the head of s, 0 when it does not
BoldEnd(s) ==
  IF \E j \in 2..Len(s) : s[j] = "</b>"
    THEN LET j == CHOOSE j \in 2..Len(s) :
                    s[j] = "</b>" /\ \A m \in 2..(j - 1) : s[m] # "</b>"
         IN  IF \E m \in 2..(j - 1) : s[m] = "\n" THEN 0 ELSE j
    ELSE 0

TextPart(cur) == IF cur = <<>> THEN <<>> ELSE <<[kind |-> "text", text |-> cur]>>

\* normalizedText.split(/(\n|<br\s*\/?>|<b>.*?<\/b>|<strong>.*?<\/strong>)/gi)
\* without the empty parts
RECURSIVE SplitParts(_, _)
SplitParts(s, cur) ==
  IF s = <<>> THEN TextPart(cur)
  ELSE IF Head(s) \in {"\n", "<br>"}
         THEN TextPart(cur) \o <<[kind |-> "break", text |-> <<>>]>>
              \o SplitParts(Tail(s), <<>>)
  ELSE IF Head(s) = "<b>" /\ BoldEnd(s) > 0
         THEN TextPart(cur)
              \o <<[kind |-> "bold", text |-> SubSeq(s, 2, BoldEnd(s) - 1)]>>
              \o SplitParts(SubSeq(s, BoldEnd(s) + 1, Len(s)), <<>>)
  ELSE SplitParts(Tail(s), Append(cur, Head(s)))

processTextWithHtml(text, baseOptions, path) ==
  IF text = <<>> THEN <<>>
  ELSE LET parts == SplitParts(CollapseSpaces(text), <<>>)
           PartRunsOf(part) ==
             IF part.kind = "break" THEN <<BreakRun(path)>>
             ELSE LET emojiParts == splitTextWithEmoji(part.text)
                  IN  [i \in DOMAIN emojiParts |->
                         StyledRun(emojiParts[i], baseOptions,
                                   part.kind = "bold", path)]
       IN  Flatten([i \in DOMAIN parts |-> PartRunsOf(parts[i])])

\* run options that start from nothing instead of the inherited options
FreshOptions(type, inherited) ==
  CASE type = "strong" -> [NoOptions EXCEPT !.bold = "true"]
    [] type = "em" -> [NoOptions EXCEPT !.italics = "true"]
    [] type = "codespan" ->
         [NoOptions EXCEPT !.font = "Courier New", !.shading = "F5F5F5"]
    [] type = "link" ->
         [NoOptions EXCEPT !.color = "2563EB", !.underline = "single"]
    [] type = "del" -> [NoOptions EXCEPT !.strike = "true"]
    [] OTHER -> inherited

\* const runOptions = { ...inheritedOptions } and the switch of lines 183-216
RunOptions(type, inherited) ==
  CASE type = "strong" -> [inherited EXCEPT !.bold = "true"]
    [] type = "em" -> [inherited EXCEPT !.italics = "true"]
    [] type = "codespan" ->
         [inherited EXCEPT !.font = "Courier New", !.shading = "F5F5F5"]
    [] type = "link" ->
         [inherited EXCEPT !.color = "2563EB", !.underline = "single"]
    [] type = "del" -> [inherited EXCEPT !.strike = "true"]
    [] OTHER -> inherited

RECURSIVE processInlineTokens(_, _, _)
processInlineTokens(tks, inherited, path) ==
  LET RunsOf(token) ==
        LET runOptions == RunOptions(token.type, inherited)
            here == Append(path, token.type)
        IN  IF token.type = "br" THEN <<BreakRun(here)>>
            ELSE IF token.hasTokens
              THEN processInlineTokens(token.tokens, runOptions, here)
            ELSE LET textContent ==
                       CollapseSpaces(IF token.raw # <<>> THEN token.raw
                                                          ELSE token.text)
                 IN  IF textContent = <<>> THEN <<>>
                     ELSE processTextWithHtml(textContent, runOptions, here)
  IN  Flatten([i \in DOMAIN tks |-> RunsOf(tks[i])])

\* the tokens marked answers
LeafToken(type, raw, text) ==
  [type |-> type, raw |-> raw, text |-> text, hasTokens |-> FALSE,
   tokens |-> <<>>]

TextToken(text) == LeafToken("text", text, text)

CodespanToken(raw, text) ==
  LeafToken("codespan", <<Backquote>> \o raw \o <<Backquote>>, text)

EscapeToken(c) == LeafToken("escape", <<"\\", c>>, <<c>>)

BrToken == LeafToken("br", <<"\n">>, <<>>)

HtmlToken(tag) == LeafToken("html", <<tag>>, <<tag>>)

ContainerToken(type, children) ==
  [type |-> type, raw |-> <<>>, text |-> <<>>, hasTokens |-> TRUE,
   tokens |-> children]

InlineDepth == 2

InlineWidth == 2

LeafTokens ==
  {TextToken(<<"a">>), TextToken(<<"a", " ", "b">>), TextToken(<<"a", Emoji>>),
   CodespanToken(<<"a">>, <<"a">>),
   CodespanToken(<<"<b>", "a", "</b>">>, <<"<b>", "a", "</b>">>),
   CodespanToken(<<"a", "\n", "b">>, <<"a", " ", "b">>),
   EscapeToken("*"), BrToken, HtmlToken("<br>")}

ContainerTypes == {"strong", "em", "link", "del"}

RECURSIVE Chains(_)
Chains(depth) ==
  IF depth = 0 THEN LeafTokens
  ELSE LeafTokens
       \cup {ContainerToken(type, <<child>>) :
               type \in ContainerTypes, child \in Chains(depth - 1)}

InlineInputs ==
  {<<t>> : t \in Chains(InlineDepth)}
  \cup NonEmptySeqsUpTo(Chains(1), InlineWidth)
  \cup {<<ContainerToken(type, children)>> :
          type \in ContainerTypes,
          children \in NonEmptySeqsUpTo(LeafTokens, InlineWidth)}

\* the run options the callers pass: none, table cell, table header cell
Baselines ==
  {NoOptions, [NoOptions EXCEPT !.size = "16"],
   [NoOptions EXCEPT !.bold = "true", !.size = "16"]}

InitInline ==
  /\ inlineTokens \in InlineInputs
  /\ inheritedOptions \in Baselines
  /\ inlineRuns = <<>>
  /\ built = FALSE

BuildRuns ==
  /\ ~built
  /\ inlineRuns' = processInlineTokens(inlineTokens, inheritedOptions, <<>>)
  /\ built' = TRUE
  /\ UNCHANGED <<inlineTokens, inheritedOptions>>
  /\ UNCHANGED <<cacheVars, runVars, normVars, extractVars, blockVars,
                 widthVars, downloadVars, overlapVars>>

NextInline == BuildRuns

(***************************************************************************)
(* The texts SpecExtract extracts from: every text of at most MaxMathLen   *)
(* symbols, the two-formula texts gap, formula, gap, formula, gap in both  *)
(* orders, and bare text followed by one delimited inline formula.         *)
(***************************************************************************)
MaxMathLen == 4

MathAlphabet == {"$", "x", "=", "\\times", "\n", "{", "}"}

ShortTexts == SeqsUpTo(MathAlphabet, MaxMathLen)

Gaps == {<<>>, <<" ">>, <<"a", " ">>, <<"a", "\n", "b">>}

BlockSources == {<<"x">>, <<" ", "x", "\n", "x">>}

InlineSources == {<<"y">>, <<"y", " ", "U+00D7">>}

DisplayMath(x) == <<"$", "$">> \o x \o <<"$", "$">>

InlineMath(y) == <<"$">> \o y \o <<"$">>

TwoFormulaTexts ==
  { g0 \o f1 \o g1 \o f2 \o g2 :
      g0 \in Gaps, g1 \in Gaps, g2 \in Gaps,
      f1 \in {DisplayMath(x) : x \in BlockSources}
             \cup {InlineMath(y) : y \in InlineSources},
      f2 \in {DisplayMath(x) : x \in BlockSources}
             \cup {InlineMath(y) : y \in InlineSources} }

Einstein == <<"E", "=", "m", "c", "^", "2">>

BareTexts ==
  {Einstein \o <<" ", "a", "n", "d", " ">>,
   <<"a", "=", "b", "=", "c", "=", "d", " ">>,
   <<"E", "=", "m", " ", "U+00D7", " ", "c", "=", "c", " ">>}

BareAndInlineTexts ==
  {bare \o InlineMath(y) : bare \in BareTexts,
                           y \in InlineSources \cup {<<"a", "+", "b", "=", "c">>}}

\* n times the symbol sym
Repeat(sym, n) == [i \in 1..n |-> sym]

\* texts without delimiters: math lines, among them one of 199 symbols and
\* one with blanks around it; texts of too few triggers or of 200 symbols,
\* with and without bare commands
UndelimitedTexts ==
  {<<"6", "5", " ", "\\times", " ", "1", "0", " ", "\\times", " ", "2", " ", "=",
     " ", "1", "3", "0", "0">>,
   <<" ", "a", "=", "b", " ", "U+00D7", " ", "c", "=", "d", " ">>,
   <<"=", "=", "=">> \o Repeat("a", MathLineLength - 4),
   <<"=", "=", "=">> \o Repeat("a", MathLineLength - 3),
   <<"=", "\\times", "=">> \o Repeat("a", MathLineLength - 3),
   <<"a", " ", "\\frac", "{", "x", "U+00D7", "y", "}", " ", "=", " ", "b">>,
   <<"a", " ", "\\times", " ", "b", " ", "\\times">>,
   <<"a", "=", "b", "=", "c">>}

\* a formula of one layer inside the delimiters of a later layer
NestedTexts ==
  {<<"$", "$", "a", " ", "\\[", "x", "\\]", " ", "b", "$", "$">>,
   <<"$", "a", "\\(", "x", "\\)", "b", "$">>,
   <<"\\(", "a", "$", "$", "x", "$", "$", "\\)">>,
   <<"\\frac", "{", "$", "x", "$", "}">>,
   <<"\\[", "a", " ", "$", "x", "$", "\\]", " ", "$", "y", "$">>}

MathTexts ==
  ShortTexts \cup TwoFormulaTexts \cup BareAndInlineTexts \cup UndelimitedTexts
    \cup NestedTexts

InitExtract ==
  /\ mathText \in MathTexts
  /\ extraction = <<>>

Extract ==
  /\ extraction = <<>>
  /\ extraction' = extractLatexFormulas(mathText)
  /\ UNCHANGED mathText
  /\ UNCHANGED <<cacheVars, runVars, normVars, inlineVars, blockVars,
                 widthVars, downloadVars, overlapVars>>

NextExtract == Extract

(***************************************************************************)
(* SpecBlock: the cases 'heading' and 'code' of processTokens on one       *)
(* token, given what the diagram rasterizer answered for it.               *)
(***************************************************************************)
MaxDepth == 6

MaxNativeWidth == 560

NativeWidths == 1..MaxNativeWidth \cup {2 * maxWidth, 6 * maxWidth, 8 * maxWidth + 1}

NativeHeights == {1, 2, 3, 299, 300, 1000}

\* heading texts: plain, an inline and a display formula, dollar signs
\* that delimit nothing, a math line, a formula that holds two dollar signs,
\* a formula inside the brace group of a bare command
HeadingTexts ==
  {<<"t">>, <<"$", "x", "$">>, <<"a", " ", "$", "$", "x", "$", "$", " ", "$", "y", "$">>,
   <<"$", "$">>, <<"a", "=", "b", "=", "c", "\\times">>,
   <<"\\[", "a", "$", "$", "b", "\\]">>,
   <<"\\frac", "{", "$", "x", "$", "}">>}

BlockInputs ==
  {[token |-> HeadingToken(depth, text), image |-> Null] :
     depth \in 1..MaxDepth, text \in HeadingTexts}
  \cup {[token |-> CodeToken(lang, text), image |-> Null] :
          lang \in {"js", "mermaid"}, text \in CodeTexts}
  \cup {[token |-> CodeToken("mermaid", <<"e", "\n", "e">>),
         image |-> SizedImage(<<"e", "\n", "e">>, FALSE, w, h)] :
          w \in NativeWidths, h \in NativeHeights}

InitBlock ==
  /\ \E input \in BlockInputs :
       /\ blockToken = input.token
       /\ blockImage = input.image
  /\ blockElements = <<>>
  /\ emitted = FALSE

\* case 'heading'
EmitHeading ==
  /\ ~emitted
  /\ blockToken.type = "heading"
  /\ blockElements' = <<HeadingParagraph(blockToken.depth,
                                         HeadingRuns(blockToken.text))>>
  /\ emitted' = TRUE
  /\ UNCHANGED <<blockToken, blockImage>>
  /\ UNCHANGED <<cacheVars, runVars, normVars, inlineVars, extractVars,
                 widthVars, downloadVars, overlapVars>>

\* case 'code', not a diagram
EmitCode ==
  /\ ~emitted
  /\ blockToken.type = "code"
  /\ blockToken.lang # "mermaid"
  /\ blockElements' = CodeParagraphs(blockToken.text)
  /\ emitted' = TRUE
  /\ UNCHANGED <<blockToken, blockImage>>
  /\ UNCHANGED <<cacheVars, runVars, normVars, inlineVars, extractVars,
                 widthVars, downloadVars, overlapVars>>

\* case 'code', lang mermaid, once imageData is known
EmitDiagram ==
  /\ ~emitted
  /\ blockToken.type = "code"
  /\ blockToken.lang = "mermaid"
  /\ blockElements' = MermaidElements(blockImage, blockToken.text)
  /\ emitted' = TRUE
  /\ UNCHANGED <<blockToken, blockImage>>
  /\ UNCHANGED <<cacheVars, runVars, normVars, inlineVars, extractVars,
                 widthVars, downloadVars, overlapVars>>

NextBlock ==
  \/ EmitHeading
  \/ EmitCode
  \/ EmitDiagram

(***************************************************************************)
(* SpecWidths: the tables calculateColumnWidths is called with.  Wide      *)
(* tables of up to MaxColumns columns have a header only, each column      *)
(* either narrow or not; small tables take every cell text and may have a  *)
(* body row, which may be shorter or longer than the header.  A table has  *)
(* at least one column.                                                    *)
(***************************************************************************)
MaxColumns == 12

Cell(text) == [text |-> text]

SerialNo == <<"U+5E8F", "U+53F7">>

LongTitle == <<"U+63CF", "U+8FF0", "U+5F88", "U+957F",
               "U+7684", "U+5217", "U+6807", "U+9898">>

Remark == <<"U+5907", "U+6CE8">>

CellTexts ==
  {<<>>, SerialNo, LongTitle, Remark, <<"a", "b", "c", "d">>,
   <<"a", "b", "c", "d", "e">>, <<"a", "U+5E8F", "b">>, <<"U+5E8F", "U+53F7", "a">>,
   <<"U+00FF", "U+00FF", "U+00FF", "U+00FF", "U+00D7">>,
   <<"U+0100", "U+0100", "U+00FF">>, <<"U+D83D", "U+DE00">>,
   <<"U+D83D", "U+DE00", "a">>}

WideTables ==
  UNION {{[header |-> [c \in 1..n |-> Cell(texts[c])], rows |-> <<>>] :
            texts \in [1..n -> {SerialNo, LongTitle}]} : n \in 1..MaxColumns}

SmallRows == {<<>>} \cup {<<Cell(t)>> : t \in CellTexts}
               \cup {<<Cell(t), Cell(u)>> : t \in {SerialNo, LongTitle}, u \in CellTexts}

SmallTables ==
  {[header |-> <<Cell(t)>>, rows |-> rows] :
     t \in CellTexts, rows \in {<<>>} \cup {<<r>> : r \in SmallRows}}
  \cup {[header |-> <<Cell(t), Cell(u)>>, rows |-> rows] :
          t \in {SerialNo, LongTitle}, u \in CellTexts,
          rows \in {<<>>} \cup {<<r>> : r \in SmallRows}}
  \cup {[header |-> <<Cell(SerialNo), Cell(LongTitle), Cell(Remark)>>, rows |-> rows] :
          rows \in {<<>>, <<<<Cell(<<"1">>), Cell(<<"a">>), Cell(<<>>)>>>>,
                    <<<<Cell(<<"1">>), Cell(<<"a">>), Cell(LongTitle)>>>>}}

WidthTables == WideTables \cup SmallTables

InitWidths ==
  /\ tableToken \in WidthTables
  /\ columnWidths = <<>>

\* case 'table', line 562
CalculateWidths ==
  /\ columnWidths = <<>>
  /\ columnWidths' = calculateColumnWidths(tableToken)
  /\ UNCHANGED tableToken
  /\ UNCHANGED <<cacheVars, runVars, normVars, inlineVars, extractVars,
                 blockVars, downloadVars, overlapVars>>

NextWidths ==
  \/ CalculateWidths

(***************************************************************************)
(* SpecDownload: handleDownload (App.tsx, lines 341-376) and the calls of  *)
(* generateWordDocument that can throw (lines 701-838).  The editor text   *)
(* and the session change at any time; the button that calls               *)
(* handleDownload is disabled while isProcessing.                          *)
(***************************************************************************)
MaxDownloads == 2

Contents == {<<>>, <<" ">>, <<"t">>, <<"$", "x", "$">>}

GenerationFailed == "Failed to generate the document, please retry."

NoGeneration == [state |-> "none", thrown |-> "none", blob |-> <<>>]

\* Packer.toBlob(doc): the document of the text
BlobOf(text) == <<"docx">> \o text

InitDownload ==
  /\ content \in Contents
  /\ user \in BOOLEAN
  /\ isProcessing = FALSE
  /\ download = [at |-> "idle", content |-> <<>>, user |-> FALSE]
  /\ generation = NoGeneration
  /\ conversions = <<>>
  /\ savedFiles = <<>>
  /\ alerts = <<>>

DownloadFrame ==
  UNCHANGED <<cacheVars, runVars, normVars, inlineVars, extractVars,
              blockVars, widthVars, overlapVars>>

\* setContent: the editor text changes
SetContent(text) ==
  /\ content # text
  /\ content' = text
  /\ UNCHANGED <<user, isProcessing, download, generation, conversions,
                 savedFiles, alerts>>
  /\ DownloadFrame

\* the session changes: sign in or sign out
SetUser(signedIn) ==
  /\ user # signedIn
  /\ user' = signedIn
  /\ UNCHANGED <<content, isProcessing, download, generation, conversions,
                 savedFiles, alerts>>
  /\ DownloadFrame

Clickable ==
  /\ download.at \in {"idle", "returned"}
  /\ Len(savedFiles) + Len(alerts) < MaxDownloads

\* handleDownload, line 342: nothing to convert
ReturnEarly ==
  /\ Clickable
  /\ Trim(content) = <<>>
  /\ download' = [at |-> "returned", content |-> content, user |-> user]
  /\ UNCHANGED <<content, user, isProcessing, generation, conversions,
                 savedFiles, alerts>>
  /\ DownloadFrame

\* handleDownload up to its first await (lines 342-347) with the
\* synchronous part of generateWordDocument: the caches are cleared, the
\* text normalized, and marked.lexer returns the tokens or throws
HandleDownload(lexerThrows) ==
  /\ Clickable
  /\ Trim(content) # <<>>
  /\ isProcessing' = TRUE
  /\ download' = [at |-> "generating", content |-> content, user |-> user]
  /\ generation' = IF lexerThrows
                     THEN [state |-> "rejected", thrown |-> "lexer", blob |-> <<>>]
                     ELSE [state |-> "processing", thrown |-> "none", blob |-> <<>>]
  /\ UNCHANGED <<content, user, conversions, savedFiles, alerts>>
  /\ DownloadFrame

\* await processTokens(tokens) returns, the Document is built and
\* Packer.toBlob called; or processTokens throws
ProcessTokensDone(tokensThrow) ==
  /\ generation.state = "processing"
  /\ generation' = IF tokensThrow
                     THEN [state |-> "rejected", thrown |-> "processTokens",
                           blob |-> <<>>]
                     ELSE [generation EXCEPT !.state = "packing"]
  /\ UNCHANGED <<content, user, isProcessing, download, conversions,
                 savedFiles, alerts>>
  /\ DownloadFrame

\* Packer.toBlob resolves with the blob, or throws
PackerDone(packerThrows) ==
  /\ generation.state = "packing"
  /\ generation' = IF packerThrows
                     THEN [state |-> "rejected", thrown |-> "packer", blob |-> <<>>]
                     ELSE [state |-> "fulfilled", thrown |-> "none",
                           blob |-> BlobOf(download.content)]
  /\ UNCHANGED <<content, user, isProcessing, download, conversions,
                 savedFiles, alerts>>
  /\ DownloadFrame

\* a catch block that shows nothing
CaughtSilently(shown) == shown

\* the catch block, lines 370-372
Caught(shown) == Append(shown, GenerationFailed)

\* lines 369 and 373-375: saveAs, then finally
SaveAndFinish ==
  /\ savedFiles' = Append(savedFiles, generation.blob)
  /\ isProcessing' = FALSE
  /\ download' = [download EXCEPT !.at = "returned"]

\* the await of line 347 is over with a blob: with a user, the insert is
\* started (lines 355-362); without one the file is saved at once
GenerationFulfilled ==
  /\ download.at = "generating"
  /\ generation.state = "fulfilled"
  /\ IF download.user
       THEN /\ download' = [download EXCEPT !.at = "inserting"]
            /\ UNCHANGED <<isProcessing, savedFiles>>
       ELSE SaveAndFinish
  /\ UNCHANGED <<content, user, generation, conversions, alerts>>
  /\ DownloadFrame

\* the insert answers: stored, an error object, or a rejection; the inner
\* catch only logs (lines 363-366), then the file is saved
InsertDone(outcome) ==
  /\ download.at = "inserting"
  /\ conversions' = IF outcome = "stored"
                      THEN Append(conversions,
                                  [content |-> download.content,
                                   title |-> generation.blob])
                      ELSE conversions
  /\ SaveAndFinish
  /\ UNCHANGED <<content, user, generation, alerts>>
  /\ DownloadFrame

\* the await of line 347 is over with a rejection: catch, then finally
GenerationRejected ==
  /\ download.at = "generating"
  /\ generation.state = "rejected"
  /\ alerts' = Caught(alerts)
  /\ isProcessing' = FALSE
  /\ download' = [download EXCEPT !.at = "returned"]
  /\ UNCHANGED <<content, user, generation, conversions, savedFiles>>
  /\ DownloadFrame

NextDownload ==
  \/ \E text \in Contents : SetContent(text)
  \/ \E signedIn \in BOOLEAN : SetUser(signedIn)
  \/ ReturnEarly
  \/ \E lexerThrows \in BOOLEAN : HandleDownload(lexerThrows)
  \/ \E tokensThrow \in BOOLEAN : ProcessTokensDone(tokensThrow)
  \/ \E packerThrows \in BOOLEAN : PackerDone(packerThrows)
  \/ GenerationFulfilled
  \/ \E outcome \in {"stored", "error", "rejected"} : InsertDone(outcome)
  \/ GenerationRejected

(***************************************************************************)
(* SpecOverlap: MaxInvocations invocations of generateWordDocument that    *)
(* overlap in time on the two module-level caches (lines 78-79).  A step   *)
(* is the code one invocation runs between two awaits; JavaScript runs it  *)
(* to the await without interruption, and at the await any other           *)
(* invocation may run.  Every span of the documents holds one formula.     *)
(*   invocations - per invocation: where it is, its formulas in document   *)
(*                 order and the index of the formula it is at             *)
(*   events      - what the invocations did to the formula cache, in time  *)
(*                 order: clear, miss, hit, set, end                       *)
(***************************************************************************)
MaxInvocations == 2

FormulaX == [type |-> "inline", formula |-> <<"x">>]

FormulaY == [type |-> "inline", formula |-> <<"y">>]

OverlapDocuments ==
  {<<FormulaX>>, <<FormulaY>>, <<FormulaX, FormulaY>>, <<FormulaY, FormulaX>>,
   <<FormulaX, FormulaX>>}

NotInvoked == [at |-> "idle", formulas |-> <<>>, next |-> 0]

InitOverlap ==
  /\ invocations = [r \in 1..MaxInvocations |-> NotInvoked]
  /\ events = <<>>

Event(r, op, key) == [run |-> r, op |-> op, key |-> key]

OverlapFrame ==
  /\ UNCHANGED <<pc, tokens, index, sub, group, tasks, tableRows,
                 docxElements, lookups, calls, earlier>>
  /\ UNCHANGED <<cacheVars, normVars, inlineVars, extractVars, blockVars,
                 widthVars, downloadVars>>

\* formulaImageCache.get(cacheKey) of the formula the invocation is at
\* (lines 325-328): on undefined the rasterizer is called and awaited, on
\* anything else the span is built from the cached value
LookedUp(r, cache, formulas, at, log) ==
  LET cacheKey == formulas[at].formula
      got == LRUGet(cache, cacheKey)
  IN  [cache |-> got.cache,
       invocation |-> IF got.value = Undefined
                        THEN [at |-> "render", formulas |-> formulas, next |-> at]
                        ELSE [at |-> "lookup", formulas |-> formulas, next |-> at + 1],
       events |-> Append(log, Event(r, IF got.value = Undefined THEN "miss" ELSE "hit",
                                    cacheKey))]

\* generateWordDocument is called: both caches are cleared (lines 661-662)
\* and the code runs on, through the lexer and processTokens, to the lookup
\* of the first formula
Invoke(r, doc) ==
  /\ invocations[r].at = "idle"
  /\ mermaidImageCache' = ClearedCache(mermaidImageCache)
  /\ LET first == LookedUp(r, ClearedCache(formulaImageCache), doc, 1,
                           Append(events, Event(r, "clear", <<>>)))
     IN  /\ formulaImageCache' = first.cache
         /\ invocations' = [invocations EXCEPT ![r] = first.invocation]
         /\ events' = first.events
  /\ OverlapFrame

\* the lookup of a later formula, after the await of the span before it
CacheLookup(r) ==
  /\ invocations[r].at = "lookup"
  /\ invocations[r].next <= Len(invocations[r].formulas)
  /\ LET looked == LookedUp(r, formulaImageCache, invocations[r].formulas,
                            invocations[r].next, events)
     IN  /\ formulaImageCache' = looked.cache
         /\ invocations' = [invocations EXCEPT ![r] = looked.invocation]
         /\ events' = looked.events
  /\ UNCHANGED mermaidImageCache
  /\ OverlapFrame

\* renderLatexToImage resolves and its result is stored (lines 330-332)
CacheStore(r) ==
  /\ invocations[r].at = "render"
  /\ LET f == invocations[r].formulas[invocations[r].next]
     IN  \E imageData \in RenderLatexResults(f.formula, f.type = "block", TRUE) :
           formulaImageCache' =
             LRUSet(formulaImageCache, FormulaCacheSize, f.formula, imageData)
  /\ invocations' = [invocations EXCEPT ![r].at = "lookup",
                                        ![r].next = invocations[r].next + 1]
  /\ events' = Append(events, Event(r, "set",
                        invocations[r].formulas[invocations[r].next].formula))
  /\ UNCHANGED mermaidImageCache
  /\ OverlapFrame

\* processTokens returns (line 705) and the document is packed
Complete(r) ==
  /\ invocations[r].at = "lookup"
  /\ invocations[r].next > Len(invocations[r].formulas)
  /\ invocations' = [invocations EXCEPT ![r].at = "done"]
  /\ events' = Append(events, Event(r, "end", <<>>))
  /\ UNCHANGED <<mermaidImageCache, formulaImageCache>>
  /\ OverlapFrame

NextOverlap ==
  \/ \E r \in 1..MaxInvocations, doc \in OverlapDocuments : Invoke(r, doc)
  \/ \E r \in 1..MaxInvocations : CacheLookup(r)
  \/ \E r \in 1..MaxInvocations : CacheStore(r)
  \/ \E r \in 1..MaxInvocations : Complete(r)

InitSpecOverlap ==
  /\ InitOverlap
  /\ InitCacheIdle
  /\ InitRun
  /\ InitNormIdle
  /\ InitInlineIdle
  /\ InitExtractIdle
  /\ InitBlockIdle
  /\ InitWidthsIdle
  /\ InitDownloadIdle

SpecOverlap == InitSpecOverlap /\ [][NextOverlap]_vars

NextCache ==
  \/ \E key \in TestKeys : CacheGet(key)
  \/ \E key \in TestKeys, value \in TestValues : CacheSet(key, value)
  \/ CacheClear

InitSpecCache ==
  /\ InitCache
  /\ InitRun
  /\ InitNormIdle
  /\ InitInlineIdle
  /\ InitExtractIdle
  /\ InitBlockIdle
  /\ InitWidthsIdle
  /\ InitDownloadIdle
  /\ InitOverlapIdle

SpecCache == InitSpecCache /\ [][NextCache]_vars

InitSpecRun ==
  /\ InitRun
  /\ InitCacheIdle
  /\ InitNormIdle
  /\ InitInlineIdle
  /\ InitExtractIdle
  /\ InitBlockIdle
  /\ InitWidthsIdle
  /\ InitDownloadIdle
  /\ InitOverlapIdle

SpecRun == InitSpecRun /\ [][NextRun]_vars

\* The event loop runs the continuation of an await once the promises it
\* waits for have all settled.  A rasterizer is under no obligation to
\* answer, and nobody has to start a run.
SpecRunFair == InitSpecRun /\ [][NextRun]_vars /\ WF_vars(FinishMixed)

InitSpecNorm ==
  /\ InitNorm
  /\ InitCacheIdle
  /\ InitRun
  /\ InitInlineIdle
  /\ InitExtractIdle
  /\ InitBlockIdle
  /\ InitWidthsIdle
  /\ InitDownloadIdle
  /\ InitOverlapIdle

SpecNorm == InitSpecNorm /\ [][NextNorm]_vars

InitSpecInline ==
  /\ InitInline
  /\ InitCacheIdle
  /\ InitRun
  /\ InitNormIdle
  /\ InitExtractIdle
  /\ InitBlockIdle
  /\ InitWidthsIdle
  /\ InitDownloadIdle
  /\ InitOverlapIdle

SpecInline == InitSpecInline /\ [][NextInline]_vars

InitSpecExtract ==
  /\ InitExtract
  /\ InitCacheIdle
  /\ InitRun
  /\ InitNormIdle
  /\ InitInlineIdle
  /\ InitBlockIdle
  /\ InitWidthsIdle
  /\ InitDownloadIdle
  /\ InitOverlapIdle

SpecExtract == InitSpecExtract /\ [][NextExtract]_vars

InitSpecWidths ==
  /\ InitWidths
  /\ InitDownloadIdle
  /\ InitOverlapIdle
  /\ InitCacheIdle
  /\ InitRun
  /\ InitNormIdle
  /\ InitInlineIdle
  /\ InitExtractIdle
  /\ InitBlockIdle

SpecWidths == InitSpecWidths /\ [][NextWidths]_vars

InitSpecDownload ==
  /\ InitDownload
  /\ InitCacheIdle
  /\ InitRun
  /\ InitNormIdle
  /\ InitInlineIdle
  /\ InitExtractIdle
  /\ InitBlockIdle
  /\ InitWidthsIdle
  /\ InitOverlapIdle

SpecDownload == InitSpecDownload /\ [][NextDownload]_vars

InitSpecBlock ==
  /\ InitBlock
  /\ InitWidthsIdle
  /\ InitDownloadIdle
  /\ InitOverlapIdle
  /\ InitCacheIdle
  /\ InitRun
  /\ InitNormIdle
  /\ InitInlineIdle
  /\ InitExtractIdle

SpecBlock == InitSpecBlock /\ [][NextBlock]_vars

(***************************************************************************)
(* Claims about LRUCache (SpecCache).                                      *)
(***************************************************************************)

\* C1: from an empty cache of capacity N, after any sequence of get/set, a
\* set of a new key while the cache holds N entries evicts exactly one
\* entry, the one least recently touched by a set or by a get of a present
\* key; every other entry (a key promoted by get in particular) survives.
C1_EvictsLeastRecentlyTouched ==
  [][ (/\ lastOp'.op = "set"
       /\ ~CacheHas(lru.cache, lastOp'.key)
       /\ LRUSize(lru.cache) = lru.maxSize)
      => (/\ recency # <<>>
          /\ lastOp'.evicted = {Head(recency)}
          /\ CacheKeys(lru'.cache)
               = (CacheKeys(lru.cache) \ {Head(recency)}) \cup {lastOp'.key}
          /\ \A k \in promoted \cap CacheKeys(lru.cache) :
               k # Head(recency) => CacheHas(lru'.cache, k)) ]_vars

\* C1 witness: capacity 3, keys 1, 2, 3 stored, key 1 promoted by get, then
\* the new key 4 stored: key 2 is evicted and the promoted key 1 survives.
C1_Witness ==
  /\ lru.maxSize = 3
  /\ lastOp.op = "set" /\ lastOp.key = 4 /\ lastOp.evicted = {2}
  /\ [i \in DOMAIN lru.cache |-> lru.cache[i].key] = <<3, 1, 4>>
  /\ promoted = {1}

(***************************************************************************)
(* Claims about the caches in generation runs (SpecRun).                   *)
(***************************************************************************)
LookupsOf(name) == SelectSeq(lookups, LAMBDA l : l.cache = name)

CallsOf(name) == SelectSeq(calls, LAMBDA c : c.rasterizer = name)

\* the diagram blocks the loop has entered so far in this run
DiagramBlocks ==
  SelectSeq(SubSeq(tokens, 1, IF pc = "mermaid" THEN index ELSE Min(index - 1, Len(tokens))),
            LAMBDA t : t.type = "code" /\ t.lang = "mermaid")

\* C2: the diagram cache never holds more than 100 entries and the formula
\* cache never holds more than 200 entries.
C2_CapacityBound ==
  /\ LRUSize(mermaidImageCache) <= 100
  /\ LRUSize(formulaImageCache) <= 200

\* C2 witness: a run that stored 101 distinct diagrams and 201 distinct
\* formulas has ended with both caches full.
C2_Witness ==
  /\ pc = "done"
  /\ LRUSize(mermaidImageCache) = 100
  /\ LRUSize(formulaImageCache) = 200
  /\ Cardinality({c.key : c \in Range(CallsOf("mermaid"))}) = 101
  /\ Cardinality({c.key : c \in Range(CallsOf("latex"))}) = 201

\* C3 (as claimed): within one run the formula rasterizer is invoked exactly
\* once for each formula source that is looked up, whatever it returns.
C3_RenderedOncePerSource ==
  \A k \in {l.key : l \in Range(LookupsOf("formula"))} :
    Cardinality({i \in DOMAIN calls :
                   calls[i].rasterizer = "latex" /\ calls[i].key = k}) = 1

\* The part of the diagram cache protocol that does not depend on eviction:
\* the lookup key is the trimmed source, the rasterizer is invoked exactly on
\* the misses, and once a block is done its result is stored under that key
\* and decides what is emitted for it.
C4_Protocol ==
  LET ls == LookupsOf("mermaid")
      misses == SelectSeq(ls, LAMBDA l : ~l.hit)
      cs == CallsOf("mermaid")
  IN  /\ Len(ls) = Len(DiagramBlocks)
      /\ \A i \in DOMAIN ls : ls[i].key = Trim(DiagramBlocks[i].text)
      /\ [i \in DOMAIN cs |-> cs[i].key] = [i \in DOMAIN misses |-> misses[i].key]
      /\ (/\ pc \in {"loop", "done"}
          /\ sub = 0
          /\ index > 1
          /\ tokens[index - 1].type = "code"
          /\ tokens[index - 1].lang = "mermaid")
         => LET stored == MapGet(mermaidImageCache, Trim(tokens[index - 1].text))
                last == docxElements[Len(docxElements)]
            IN  /\ stored # Undefined
                /\ (stored.kind = "image") => last = ImageParagraph(stored)
                /\ (stored.kind = "null") => last.el = "code"

\* the diagram sources other than ls[j].key looked up strictly between the
\* previous lookup of that source and lookup j
OthersSincePrevious(ls, j) ==
  LET prev == CHOOSE i \in 1..(j - 1) :
                /\ ls[i].key = ls[j].key
                /\ \A m \in (i + 1)..(j - 1) : ls[m].key # ls[j].key
  IN  {ls[m].key : m \in (prev + 1)..(j - 1)}

Repeated(ls, j) == \E i \in 1..(j - 1) : ls[i].key = ls[j].key

\* C4 (as claimed): the protocol, and a later diagram block with the same
\* trimmed source in the same run never invokes the rasterizer again.
C4_DiagramCacheProtocol ==
  /\ C4_Protocol
  /\ LET ls == LookupsOf("mermaid")
     IN  \A j \in DOMAIN ls : Repeated(ls, j) => ls[j].hit

\* C4 (amended): the protocol, and a later diagram block with the same
\* trimmed source is served from the cache exactly when fewer than 100 other
\* distinct diagram sources were looked up since the previous block with
\* that source; a first block of a source is always a miss.
C4_DiagramCacheProtocolUntilEvicted ==
  /\ C4_Protocol
  /\ LET ls == LookupsOf("mermaid")
     IN  \A j \in DOMAIN ls :
           ls[j].hit <=> (/\ Repeated(ls, j)
                          /\ Cardinality(OthersSincePrevious(ls, j)) < 100)

\* C4 witness: two diagram blocks whose sources differ only in surrounding
\* whitespace; the second is served from the cache, one rasterizer call.
C4_Witness ==
  /\ pc = "done"
  /\ tokens = <<CodeToken("mermaid", <<" ", "d">>), CodeToken("mermaid", <<"d">>)>>
  /\ LookupsOf("mermaid") = <<[cache |-> "mermaid", key |-> <<"d">>, hit |-> FALSE],
                              [cache |-> "mermaid", key |-> <<"d">>, hit |-> TRUE]>>
  /\ Len(CallsOf("mermaid")) = 1

\* C5: both caches are empty when a run enters the token loop, and the first
\* lookup of any key in a run is a miss, whatever earlier runs stored.
C5_ClearedAtStart ==
  /\ (pc = "loop" /\ index = 1 /\ sub = 0)
       => (mermaidImageCache = <<>> /\ formulaImageCache = <<>>)
  /\ \A i \in DOMAIN lookups :
       (\A j \in 1..(i - 1) :
          lookups[j].cache # lookups[i].cache \/ lookups[j].key # lookups[i].key)
       => ~lookups[i].hit

\* C5 witness: the caches held the formula "x" and the diagram "d" when the
\* run started, and the run's lookups of both have missed.
C5_Witness ==
  /\ earlier = TrackedKeys
  /\ [cache |-> "formula", key |-> "x", hit |-> FALSE] \in Range(lookups)
  /\ [cache |-> "mermaid", key |-> <<"d">>, hit |-> FALSE] \in Range(lookups)

(***************************************************************************)
(* Claims about the text normalizer (SpecNorm).                            *)
(***************************************************************************)
\* the text given to the latest pass
NormInput == IF passes <= 1 THEN markdownText ELSE previous

InputLines == SplitOn(NormInput, "\n")

DedentedLines == SplitOn(dedentedText, "\n")

NormalizedLines == SplitOn(normalizedMarkdown, "\n")

NonBlankLines == {i \in DOMAIN InputLines : Trim(InputLines[i]) # <<>>}

\* C6: applying the normalizer to its own output yields the same text.
C6_Idempotent ==
  passes >= 2 => normalizedMarkdown = previous

\* C6 witness: a text that both steps of the first pass changed has been
\* normalized a second time with no further change.
C6_Witness ==
  /\ passes = 2
  /\ Dedent(markdownText) # markdownText
  /\ NormalizeWhitespace(Dedent(markdownText)) # Dedent(markdownText)
  /\ normalizedMarkdown = previous

\* whether every non-blank line starts with the same k whitespace characters
SharesPrefix(k) ==
  \A i \in NonBlankLines :
    /\ Len(InputLines[i]) >= k
    /\ \A c \in 1..k : IsSpace(InputLines[i][c])
    /\ \A j \in NonBlankLines : SubSeq(InputLines[j], 1, k) = SubSeq(InputLines[i], 1, k)

\* length of the longest leading-whitespace prefix the non-blank lines share
CommonPrefixLength ==
  CHOOSE k \in 0..Len(NormInput) :
    /\ SharesPrefix(k)
    /\ \A m \in (k + 1)..Len(NormInput) : ~SharesPrefix(m)

\* the smallest number of leading whitespace characters of a non-blank line
SmallestIndent ==
  CHOOSE k \in {IndentOf(InputLines[i]) : i \in NonBlankLines} :
    \A i \in NonBlankLines : k <= IndentOf(InputLines[i])

\* the dedent step took k characters from the start of every line that has
\* them; whether shorter lines are held to be unchanged is `shortKept`
DedentedBy(k, shortKept) ==
  /\ Len(DedentedLines) = Len(InputLines)
  /\ \A i \in DOMAIN InputLines :
       IF Len(InputLines[i]) >= k
         THEN DedentedLines[i] = SubSeq(InputLines[i], k + 1, Len(InputLines[i]))
         ELSE shortKept => DedentedLines[i] = InputLines[i]

\* C7 (as claimed): when the non-blank lines share a leading-whitespace
\* prefix of length k, dedenting removes exactly k characters from the
\* start of every line; a line shorter than k is left unless blank.
C7_DedentByCommonPrefix ==
  (passes >= 1 /\ NonBlankLines # {}) => DedentedBy(CommonPrefixLength, FALSE)

\* C7 (amended): with k the smallest number of leading whitespace characters
\* over the non-blank lines, the dedent step removes exactly the first k
\* characters from every line of at least k characters and leaves shorter
\* lines (all blank) unchanged; a text with no non-blank line is unchanged.
C7_DedentByMinimumIndent ==
  passes >= 1 =>
    IF NonBlankLines # {} THEN DedentedBy(SmallestIndent, TRUE)
                          ELSE dedentedText = NormInput

\* C7 witness: non-blank lines indented by different whitespace characters
\* and a blank line shorter than the indent have been dedented.
C7_Witness ==
  /\ passes = 1
  /\ NonBlankLines # {}
  /\ SmallestIndent = 2
  /\ CommonPrefixLength < SmallestIndent
  /\ \E i \in DOMAIN InputLines : Len(InputLines[i]) = 1
  /\ dedentedText # markdownText

\* line i lies between an opening and a closing fence marker
InsideFence(lines, i) ==
  /\ \A j \in DOMAIN lines : StartsWithFence(lines[j]) => lines[j] = Fence
  /\ ~StartsWithFence(lines[i])
  /\ Cardinality({j \in 1..(i - 1) : StartsWithFence(lines[j])}) % 2 = 1
  /\ \E j \in (i + 1)..Len(lines) : StartsWithFence(lines[j])

\* C8 (as claimed): every line between an opening and a closing fence marker
\* is left unchanged by the whitespace-collapsing step.
C8_FenceContentVerbatim ==
  passes >= 1 =>
    \A i \in DOMAIN DedentedLines :
      InsideFence(DedentedLines, i) => NormalizedLines[i] = DedentedLines[i]

(***************************************************************************)
(* Claims about the inline run builder (SpecInline).                       *)
(***************************************************************************)
\* the text a reader sees for a token sequence
RECURSIVE VisibleText(_)
VisibleText(tks) ==
  Flatten([i \in DOMAIN tks |->
             IF tks[i].hasTokens THEN VisibleText(tks[i].tokens)
                                 ELSE tks[i].text])

\* only plain text, strong, emphasis, code span, link, strikethrough, escape
RECURSIVE OfClaimedKinds(_)
OfClaimedKinds(tks) ==
  \A i \in DOMAIN tks :
    /\ tks[i].type \in
         {"text", "strong", "em", "codespan", "link", "del", "escape"}
    /\ tks[i].hasTokens => OfClaimedKinds(tks[i].tokens)

\* C9 (as claimed): for a sequence of plain text, strong, emphasis, code
\* span, link, strikethrough and escape tokens, the texts of the produced
\* runs concatenated equal the tokens' visible text concatenated.
C9_RunConcatenation ==
  (built /\ OfClaimedKinds(inlineTokens))
    => Flatten([i \in DOMAIN inlineRuns |-> inlineRuns[i].text])
         = VisibleText(inlineTokens)

\* the attributes a token type sets
StyleSetBy(type) ==
  CASE type = "strong" -> [bold |-> "true"]
    [] type = "em" -> [italics |-> "true"]
    [] type = "del" -> [strike |-> "true"]
    [] type = "codespan" -> [font |-> "Courier New", shading |-> "F5F5F5"]
    [] type = "link" -> [color |-> "2563EB", underline |-> "single"]
    [] OTHER -> <<>>

Override(options, set) ==
  [a \in DOMAIN options |-> IF a \in DOMAIN set THEN set[a] ELSE options[a]]

\* the baseline overridden by each token from the root to the leaf in turn
RECURSIVE StyleAlong(_, _)
StyleAlong(path, baseline) ==
  IF path = <<>> THEN baseline
  ELSE StyleAlong(Tail(path), Override(baseline, StyleSetBy(Head(path))))

\* C10 (as claimed): every produced run has the attributes set by the tokens
\* on its path, each overriding the inherited one, and the inherited
\* baseline value for every attribute not set on the path.
C10_StyleInheritance ==
  built => \A i \in DOMAIN inlineRuns :
             inlineRuns[i].options
               = StyleAlong(inlineRuns[i].path, inheritedOptions)

\* C10 (amended): the same for every run but for three cases: a line-break
\* run carries no attribute at all; a run of text enclosed in <b>...</b>
\* inside a leaf's text is bold in addition; an emoji run has the font
\* Segoe UI Emoji in place of the inherited or monospace font.
C10_StyleInheritanceOfTextRuns ==
  built => \A i \in DOMAIN inlineRuns :
             LET run == inlineRuns[i]
                 along == StyleAlong(run.path, inheritedOptions)
                 tagged == IF run.part = "bold" THEN [bold |-> "true"] ELSE <<>>
                 symbol == IF run.text = <<Emoji>>
                             THEN [font |-> "Segoe UI Emoji"] ELSE <<>>
             IN  IF run.break
                   THEN run.options = NoOptions
                   ELSE run.options = Override(Override(along, tagged), symbol)

\* C10 witness: in a table header cell (bold, size 16) the text of a link
\* inside an emphasis is one run: italic, link-coloured, underlined, and
\* bold at size 16 from the baseline.
C10_Witness ==
  /\ built
  /\ Len(inlineRuns) = 1
  /\ inlineRuns[1].path = <<"em", "link", "text">>
  /\ inlineRuns[1].options =
       [NoOptions EXCEPT !.bold = "true", !.size = "16", !.italics = "true",
                         !.color = "2563EB", !.underline = "single"]

(***************************************************************************)
(* Claims about the formula extractor (SpecExtract)                        *)
(***************************************************************************)
Extracted == extraction # <<>>

Residue == textWithoutPlaceholders(extraction.processedText)

\* what the claims expect of a text holding the display formula x and the
\* inline formula y between the gaps that join to rest
TwoFormulasExtracted(x, y, rest) ==
  /\ Len(extraction.formulas) = 2
  /\ extraction.formulas[1].type = "block"
  /\ extraction.formulas[1].formula = normalizeUnicodeToLatex(Trim(x))
  /\ extraction.formulas[2].type = "inline"
  /\ extraction.formulas[2].formula = normalizeUnicodeToLatex(Trim(y))
  /\ Residue = rest

\* C11: a text that holds exactly one $$x$$ display formula and one $y$
\* inline formula, in either order, and no other math trigger is extracted
\* to exactly two formulas, the block x and the inline y, and the processed
\* text without its placeholders is the text outside the two formulas.
C11_ExtractionCompleteness ==
  \A g0 \in Gaps, g1 \in Gaps, g2 \in Gaps,
     x \in BlockSources, y \in InlineSources :
       /\ Extracted
       /\ mathText \in {g0 \o DisplayMath(x) \o g1 \o InlineMath(y) \o g2,
                         g0 \o InlineMath(y) \o g1 \o DisplayMath(x) \o g2}
       => TwoFormulasExtracted(x, y, g0 \o g1 \o g2)

\* C12: of bare text with equals signs followed by one $...$ formula, such
\* as "E=mc^2 and $a+b=c$", exactly one formula is extracted, the inline one
\* between the dollar signs; the bare text stays in the processed text, taken
\* neither as a whole-span formula nor as a naked command.
C12_DelimitedBesideBare ==
  \A bare \in BareTexts, y \in InlineSources \cup {<<"a", "+", "b", "=", "c">>} :
       Extracted /\ mathText = bare \o InlineMath(y)
       => /\ Len(extraction.formulas) = 1
          /\ extraction.formulas[1].type = "inline"
          /\ extraction.formulas[1].formula = normalizeUnicodeToLatex(Trim(y))
          /\ extraction.processedText
               = bare \o <<extraction.formulas[1].placeholder>>
          /\ Residue = bare

C12_Witness ==
  /\ Extracted
  /\ mathText = Einstein \o <<" ", "a", "n", "d", " ">>
                  \o InlineMath(<<"a", "+", "b", "=", "c">>)
  /\ Len(extraction.formulas) = 1

(***************************************************************************)
(* Claims about processMixedContent (SpecRun)                              *)
(***************************************************************************)
\* the step on which the spans started together are assembled
Assembling == pc = "mixed" /\ pc' = "loop"

\* the formula promises of span s of the group, in placeholder order
PromisesOf(s) == SelectSeq(tasks, LAMBDA t : t.span = s)

\* the runs the assembling step writes for span s of the group
AssembledRuns(s) ==
  LET token == tokens[index]
  IN  IF token.type = "table"
        THEN IF sub < Len(token.rows)
               THEN tableRows'[Len(tableRows')][s]
               ELSE LET table == docxElements'[Len(docxElements') - 1]
                    IN  table.rows[Len(table.rows)][s]
        ELSE docxElements'[Len(docxElements')].children

\* what the claim expects in the place of a formula
ResolvedRun(promise, options) ==
  IF promise.imageData.kind = "image"
    THEN ImageRunOf(promise.imageData)
    ELSE TextRunOf(promise.f.formula, TRUE, options)

IsFormulaRun(r) == r.run = "image" \/ r.italics

\* C13: when a span is assembled, each formula rasterized for it (the whole
\* text of a span where detection fired and nothing was extracted included)
\* stands in the runs as exactly one run, in placeholder order: an image run
\* if its rasterization answered an image, else an italic text run of the
\* formula source; a failed rasterization does not stop the assembly.
C13_PlaceholderResolution ==
  [][Assembling =>
       \A s \in DOMAIN group :
          SelectSeq(AssembledRuns(s), IsFormulaRun)
            = [j \in DOMAIN PromisesOf(s) |->
                 ResolvedRun(PromisesOf(s)[j], group[s].options)]]_vars

\* C14: when a span with extracted formulas is assembled, its runs follow
\* its pieces one for one and in order: a text piece gives the text run of
\* that text, a placeholder gives the run of its formula; no piece is
\* dropped and none is moved.
C14_TextPreservedInPlace ==
  [][Assembling =>
       \A s \in DOMAIN group :
          LET span == group[s].span
              runs == AssembledRuns(s)
          IN  span.detected /\ ExtractedFormulas(span) # <<>>
              => /\ Len(runs) = Len(span.pieces)
                 /\ \A i \in DOMAIN span.pieces :
                      IF span.pieces[i].kind = "text"
                        THEN runs[i] = TextRunOf(span.pieces[i].formula, FALSE,
                                                 group[s].options)
                        ELSE IsFormulaRun(runs[i])]_vars

\* C15: the rasterizer is called for every formula of the spans started
\* together that misses the cache before any of these calls is awaited, and
\* no call is added while they are pending; the runs are assembled only when
\* every promise has completed; each promise keeps its own answer, so in a
\* span with extracted formulas a formula that failed stands as its italic
\* source and every formula that succeeded as its own image.
C15_FanOutFanIn ==
  [][/\ pc = "loop" /\ pc' = "mixed"
        => /\ \A i \in DOMAIN tasks' : tasks'[i].status = "pending"
                => \E c \in (Len(calls) + 1)..Len(calls') :
                     calls'[c].key = tasks'[i].f.formula
           /\ Len(calls') - Len(calls)
                = Cardinality({i \in DOMAIN tasks' : tasks'[i].status = "pending"})
     /\ pc = "mixed" => calls' = calls /\ lookups' = lookups
     /\ Assembling
        => /\ \A i \in DOMAIN tasks : tasks[i].status = "done"
           /\ \A s \in DOMAIN group :
                ExtractedFormulas(group[s].span) # <<>>
                => SelectSeq(AssembledRuns(s), IsFormulaRun)
                     = [j \in DOMAIN PromisesOf(s) |->
                          ResolvedRun(PromisesOf(s)[j], group[s].options)]]_vars

\* a paragraph of two formulas was assembled: x failed, y is an image
C15_Witness ==
  /\ pc = "loop"
  /\ \E e \in DOMAIN docxElements :
       /\ docxElements[e].el = "paragraph"
       /\ docxElements[e].children
            = <<TextRunOf("x", TRUE, ""), ImageRunOf(Image("y", FALSE))>>

\* C16: while the formulas of a paragraph are awaited and blocks follow the
\* paragraph in the document, the generator goes on to those blocks, whether
\* or not the rasterizer ever answers.
C16_StallsOnlyTheSpan ==
  \A i \in 1..MaxTokens :
     (/\ pc = "mixed" /\ index = i /\ i < Len(tokens)
      /\ tokens[i].type = "paragraph") ~> (index > i)

(***************************************************************************)
(* Claims about code blocks and headings                                   *)
(***************************************************************************)
\* the step that completes the code token at index
CodeStep ==
  /\ pc \in {"loop", "mermaid"}
  /\ index <= Len(tokens)
  /\ tokens[index].type = "code"
  /\ index' = index + 1

NewElements == SubSeq(docxElements', Len(docxElements) + 1, Len(docxElements'))

\* C17: a diagram block whose rasterization failed (just now, or earlier in
\* the run, the failure being cached) does not stop the run: the loop goes
\* on, and the block is written as one code paragraph per line of its
\* source, N paragraphs for N lines, with no image; a code block that is not
\* a diagram is written the same way.
C17_CodeLinesOnFailure ==
  [][CodeStep
       /\ (tokens[index].lang = "mermaid"
             => MapGet(mermaidImageCache', Trim(tokens[index].text)) = Null)
     => /\ pc' = "loop"
        /\ Len(docxElements') = Len(docxElements)
             + Cardinality({i \in DOMAIN tokens[index].text :
                              tokens[index].text[i] = "\n"}) + 1
        /\ \A e \in DOMAIN NewElements :
             /\ NewElements[e].el = "code"
             /\ Len(NewElements[e].children) = 1
             /\ NewElements[e].children[1].run = "text"
             /\ NewElements[e].children[1].options = "code"
        /\ JoinOn([e \in DOMAIN NewElements |-> NewElements[e].children[1].text],
                  "\n") = tokens[index].text]_vars

\* a diagram of two lines failed and stands as two code paragraphs
C17_Witness ==
  /\ pc = "loop"
  /\ index = 2
  /\ tokens[1] = CodeToken("mermaid", <<"e", "\n", "e">>)
  /\ MapGet(mermaidImageCache, <<"e", "\n", "e">>) = Null
  /\ docxElements = <<CodeParagraph(<<"e">>), CodeParagraph(<<"e">>)>>

(***************************************************************************)
(* Claims about one heading or code token (SpecBlock)                      *)
(***************************************************************************)
\* C18: a diagram whose rasterization answered an image of native size
\* w x h, both positive, is written as exactly one paragraph, centered,
\* holding one image run and no text run; the display width is 550 if
\* w > 550, 400 if w < 400 and w otherwise, hence between 400 and 550; the
\* display height is h times display width / w rounded to the nearest
\* integer, that is within one half of it.
C18_DiagramDisplaySize ==
  emitted /\ blockToken.type = "code" /\ blockToken.lang = "mermaid"
          /\ blockImage.kind = "image"
  => /\ Len(blockElements) = 1
     /\ blockElements[1].el = "image"
     /\ blockElements[1].alignment = "center"
     /\ Len(blockElements[1].children) = 1
     /\ blockElements[1].children[1].run = "image"
     /\ blockElements[1].children[1].image = blockImage
     /\ LET w == blockImage.width
            h == blockImage.height
            shown == blockElements[1].children[1].transformation
            delta == shown.height * w - h * shown.width
        IN  /\ shown.width = IF w > 550 THEN 550 ELSE IF w < 400 THEN 400 ELSE w
            /\ shown.width >= 400 /\ shown.width <= 550
            /\ 2 * delta <= w /\ 2 * delta > -w

\* a wide diagram was scaled down and a narrow one scaled up
C18_Witness ==
  /\ emitted
  /\ blockToken.type = "code"
  /\ blockImage.kind = "image"
  /\ blockImage.width \in {399, 551}
  /\ blockImage.height = 300
  /\ Len(blockElements) = 1

\* C19: a heading token is written as exactly one heading paragraph; depth
\* 1, 2, 3 gives level 1, 2, 3 and every depth from 4 on gives level 4; the
\* spacing before and the spacing after are smaller at every deeper level;
\* the paragraph has a bottom border exactly when the depth is 1.
C19_HeadingMapping ==
  emitted /\ blockToken.type = "heading"
  => /\ Len(blockElements) = 1
     /\ blockElements[1].el = "heading"
     /\ blockElements[1].level
          = IF blockToken.depth >= 4 THEN 4 ELSE blockToken.depth
     /\ blockElements[1].border = (blockToken.depth = 1)
     /\ \A depth \in 1..MaxDepth :
          LET other == HeadingParagraph(depth, <<>>)
          IN  other.level > blockElements[1].level
              => /\ other.spacing.before < blockElements[1].spacing.before
                 /\ other.spacing.after < blockElements[1].spacing.after

\* a heading of depth 5 was written at level 4
C19_Witness ==
  /\ emitted
  /\ blockToken.type = "heading"
  /\ blockToken.depth = 5
  /\ blockElements[1].level = 4

\* the formula extracted from a heading text under the placeholder sym
FormulaUnder(formulas, sym) ==
  LET found == SelectSeq(formulas, LAMBDA f : f.placeholder = sym)
  IN  IF found = <<>> THEN <<sym>> ELSE Head(found).formula

\* C20: a heading touches neither the formula rasterizer nor the formula
\* cache and is written with text runs only; where math is detected in its
\* text, the text written is the processed text with every placeholder
\* replaced by the source of the formula extracted there.
C20_HeadingFormulasAsText ==
  emitted /\ blockToken.type = "heading"
  => /\ calls = <<>> /\ lookups = <<>> /\ formulaImageCache = <<>>
     /\ Len(blockElements) = 1
     /\ \A r \in DOMAIN blockElements[1].children :
          blockElements[1].children[r].run = "text"
     /\ hasLatexFormula(blockToken.text)
        => LET extracted == extractLatexFormulas(blockToken.text)
           IN  Flatten([r \in DOMAIN blockElements[1].children |->
                          blockElements[1].children[r].text])
                 = Flatten([i \in DOMAIN extracted.processedText |->
                              FormulaUnder(extracted.formulas,
                                           extracted.processedText[i])])

(***************************************************************************)
(* Claims about calculateColumnWidths (SpecWidths)                         *)
(***************************************************************************)
Calculated == columnWidths # <<>>

\* the rows of the table, the header first
TableLines == <<tableToken.header>> \o tableToken.rows

\* the width of a text as the claims count it
UnitsOf(text) ==
  2 * Cardinality({i \in DOMAIN text : charCodeAt(text[i]) > 255})
    + Cardinality({i \in DOMAIN text : charCodeAt(text[i]) <= 255})

\* a column no cell of which is wider than 4
Narrow(col) ==
  \A r \in DOMAIN TableLines :
     col \in DOMAIN TableLines[r] => UnitsOf(TableLines[r][col].text) <= 4

NarrowColumns == {col \in DOMAIN tableToken.header : Narrow(col)}

\* the width q is the quotient n / d
IsQuotient(q, n, d) == q.num * d = n * q.den

RECURSIVE SumTimes(_, _)
SumTimes(widths, d) ==
  IF widths = <<>> THEN 0
  ELSE Head(widths).num * (d \div Head(widths).den) + SumTimes(Tail(widths), d)

LargestDenominator ==
  MaxOf([i \in DOMAIN columnWidths |-> columnWidths[i].den])

\* C28: for a table of at least one column, every width calculated is
\* strictly positive and the widths add up to the table width 10466,
\* whatever the number of columns and whichever of them are narrow.
C28_WidthsPartitionTheTable ==
  Calculated
  => /\ \A i \in DOMAIN columnWidths :
          /\ columnWidths[i].den > 0
          /\ columnWidths[i].num > 0
          /\ LargestDenominator % columnWidths[i].den = 0
     /\ SumTimes(columnWidths, LargestDenominator) = 10466 * LargestDenominator

(***************************************************************************)
(* Claims about the order of the output (SpecRun)                          *)
(***************************************************************************)
\* the runs come from the span: an image of one of its formulas, or a text
\* that is one of its pieces (or stands for the whole span)
RunsFrom(rs, span) ==
  /\ \A r \in DOMAIN rs :
       IF rs[r].run = "image"
         THEN \E i \in DOMAIN span.pieces :
                /\ span.pieces[i].kind = "formula"
                /\ rs[r].image.src = span.pieces[i].formula
         ELSE \/ \E i \in DOMAIN span.pieces : rs[r].text = span.pieces[i].formula
              \/ ExtractedFormulas(span) = <<>>
  /\ Len(span.pieces) = 1 => Len(rs) = 1

LinesOf(text) ==
  Cardinality({i \in DOMAIN text : text[i] = "\n"}) + 1

CodeBlock(text, elems) ==
  /\ Len(elems) >= LinesOf(text)
  /\ \A e \in 1..LinesOf(text) : elems[e].el = "code"
  /\ JoinOn([e \in 1..LinesOf(text) |-> elems[e].children[1].text], "\n") = text

TableBlock(tk, elems) ==
  /\ Len(elems) >= 2
  /\ elems[1].el = "table"
  /\ elems[2].el = "blank"
  /\ LET lines == <<tk.header>> \o tk.rows
     IN  /\ Len(elems[1].rows) = Len(lines)
         /\ \A r \in DOMAIN lines :
              /\ Len(elems[1].rows[r]) = Len(lines[r])
              /\ \A c \in DOMAIN lines[r] :
                   RunsFrom(elems[1].rows[r][c], lines[r][c])

\* how many elements at the head of elems are the blocks of the token tk;
\* -1 if elems does not start with the blocks of tk
BlockLength(tk, elems) ==
  CASE tk.type = "heading" ->
         IF elems # <<>> /\ elems[1].el = "heading" THEN 1 ELSE -1
    [] tk.type = "paragraph" ->
         IF /\ elems # <<>> /\ elems[1].el = "paragraph"
            /\ RunsFrom(elems[1].children, tk.span)
           THEN 1 ELSE -1
    [] tk.type = "list" ->
         IF /\ Len(elems) >= Len(tk.items)
            /\ \A i \in DOMAIN tk.items :
                 /\ elems[i].el = "bullet"
                 /\ RunsFrom(elems[i].children, tk.items[i])
           THEN Len(tk.items) ELSE -1
    [] tk.type = "code" ->
         IF /\ tk.lang = "mermaid" /\ elems # <<>> /\ elems[1].el = "image"
            /\ elems[1].children[1].image.src = Trim(tk.text)
           THEN 1
           ELSE IF CodeBlock(tk.text, elems) THEN LinesOf(tk.text) ELSE -1
    [] tk.type = "table" -> IF TableBlock(tk, elems) THEN 2 ELSE -1
    [] tk.type = "hr" -> IF elems # <<>> /\ elems[1].el = "rule" THEN 1 ELSE -1
    [] OTHER -> 0

\* elems is the concatenation, in order, of the blocks of the tokens toks
RECURSIVE Concatenated(_, _)
Concatenated(toks, elems) ==
  IF toks = <<>> THEN elems = <<>>
  ELSE LET n == BlockLength(Head(toks), elems)
       IN  /\ n >= 0
           /\ Concatenated(Tail(toks), SubSeq(elems, n + 1, Len(elems)))

\* the output so far: the blocks of the tokens the loop is through with,
\* then the items written so far of the list it is in
InOrder ==
  LET started == IF index <= Len(tokens) /\ tokens[index].type = "list"
                   THEN sub ELSE 0
      whole == Len(docxElements) - started
  IN  /\ whole >= 0
      /\ Concatenated(SubSeq(tokens, 1, index - 1), SubSeq(docxElements, 1, whole))
      /\ \A i \in 1..started :
           /\ docxElements[whole + i].el = "bullet"
           /\ RunsFrom(docxElements[whole + i].children, tokens[index].items[i])

\* what one step of the loop adds belongs to the token at index: all its
\* blocks when the step completes the token, the next item of a list, or
\* nothing
AddsBlocksOfCurrentToken ==
  /\ SubSeq(docxElements', 1, Len(docxElements)) = docxElements
  /\ index' \in {index, index + 1}
  /\ IF index' = index /\ sub' = sub THEN NewElements = <<>>
     ELSE IF tokens[index].type = "list"
       THEN /\ Len(NewElements) = 1
            /\ NewElements[1].el = "bullet"
            /\ RunsFrom(NewElements[1].children, tokens[index].items[sub + 1])
            /\ index' = index + 1 <=> sub + 1 = Len(tokens[index].items)
       ELSE IF index' = index THEN NewElements = <<>>
            ELSE BlockLength(tokens[index], NewElements) = Len(NewElements)

\* C22: every step of a run appends to the output the blocks of the token
\* the loop is at and then moves to the next token, so that the output is
\* the concatenation, in token order, of the blocks of the tokens processed
\* so far; each table row holds the runs of its cells in column order,
\* whatever the order in which the rasterizations complete; a space token
\* and a token of an unhandled type add no block, and after an unhandled
\* token the loop goes on.
C22_DocumentOrder ==
  [][/\ pc \notin {"idle", "done"} => AddsBlocksOfCurrentToken
     /\ pc' # "idle" /\ Len(tokens') <= MaxTokens => InOrder'
     /\ pc = "loop" /\ index <= Len(tokens)
          /\ tokens[index].type \notin {"heading", "paragraph", "list", "code",
                                       "table", "hr"}
        => /\ docxElements' = docxElements
           /\ pc' = "loop"
           /\ index' = index + 1]_vars

\* a run has ended whose table has the cells y and x in this order and
\* whose formula x was rasterized first; an unhandled token came before
C22_Witness ==
  /\ pc = "done"
  /\ Len(tokens) = 2
  /\ tokens[1].type = "html"
  /\ tokens[2].type = "table"
  /\ tokens[2].header = <<Span(TRUE, <<InlineY>>, "m"), Span(TRUE, <<InlineX>>, "m")>>
  /\ [i \in DOMAIN formulaImageCache |-> formulaImageCache[i].key] = <<"x", "y">>
  /\ Len(docxElements) = 2
  /\ docxElements[1].rows[1]
       = <<<<ImageRunOf(Image("y", FALSE))>>, <<ImageRunOf(Image("x", FALSE))>>>>

(***************************************************************************)
(* Claims about handleDownload (SpecDownload)                              *)
(***************************************************************************)
\* the step on which the running handleDownload returns
Returns == download.at # "returned" /\ download'.at = "returned"

\* C23: when the lexer or the packager throws, generateWordDocument ends
\* rejected and without a blob; handleDownload then saves no file, inserts
\* no history record, shows the generation-failed message and sets
\* isProcessing to false; isProcessing is false whenever handleDownload has
\* returned, after a success as after a failure.
C23_CatastrophicFailure ==
  [][/\ generation'.thrown # "none"
        => generation'.state = "rejected" /\ generation'.blob = <<>>
     /\ Returns /\ generation.state = "rejected"
        => /\ savedFiles' = savedFiles
           /\ conversions' = conversions
           /\ alerts' = Append(alerts, GenerationFailed)
           /\ ~isProcessing'
     /\ Returns /\ generation.thrown = "none" => alerts' = alerts
     /\ download'.at = "returned" => ~isProcessing']_vars

\* a signed-in user's download has returned after the packager threw
C23_Witness ==
  /\ download.at = "returned"
  /\ download.user
  /\ generation.thrown = "packer"
  /\ alerts = <<GenerationFailed>>
  /\ savedFiles = <<>>
  /\ conversions = <<>>
  /\ ~isProcessing

(***************************************************************************)
(* Claims about the fallbacks of the extractor (SpecExtract)               *)
(***************************************************************************)
\* the text holds a formula between delimiters: \[ \], $$ $$, \( \), or
\* $ $ on one line with no dollar sign next to either sign
Delimited(text) ==
  \/ \E i, j \in DOMAIN text : i < j /\ text[i] = "\\[" /\ text[j] = "\\]"
  \/ \E i, j \in DOMAIN text : i < j /\ text[i] = "\\(" /\ text[j] = "\\)"
  \/ \E i, j \in 1..(Len(text) - 1) :
        /\ i + 2 <= j
        /\ text[i] = "$" /\ text[i + 1] = "$"
        /\ text[j] = "$" /\ text[j + 1] = "$"
  \/ \E i, j \in DOMAIN text :
        /\ i + 2 <= j
        /\ text[i] = "$" /\ text[j] = "$"
        /\ i = 1 \/ text[i - 1] # "$"
        /\ j = Len(text) \/ text[j + 1] # "$"
        /\ \A k \in (i + 1)..(j - 1) : text[k] \notin {"$", "\n"}

\* the characters of the trigger class in the text
Triggers(text) ==
  Cardinality({i \in DOMAIN text :
                 text[i] \in {"=", "U+00D7", "\\times", "\\frac",
                              "\\[", "\\]", "\\(", "\\)"}})

LooksLikeMath(text) ==
  ~Delimited(text) /\ Len(text) < 200 /\ Triggers(text) >= 3

\* the processed text with every placeholder replaced by the source of its
\* formula
Restored ==
  Flatten([i \in DOMAIN extraction.processedText |->
             FormulaUnder(extraction.formulas, extraction.processedText[i])])

\* a bare command: its name and, possibly, one brace group
IsBareCommand(source) ==
  /\ source # <<>>
  /\ Head(source) \in NakedCommands
  /\ Len(source) > 1
     => /\ source[2] = "{"
        /\ source[Len(source)] = "}"
        /\ \A k \in 3..(Len(source) - 1) : source[k] # "}"

\* C24: of a text without a delimited formula that is shorter than 200 and
\* holds at least 3 trigger characters, exactly one formula is extracted,
\* a block whose source is the normalized trimmed text, and the processed
\* text is its placeholder alone.  Of any other text without a delimited
\* formula the bare commands, and nothing else, are extracted, each as an
\* inline formula, and the text around them stays as it is; a text is never
\* taken as a whole block unless the first condition holds.
C24_WholeSpanFallback ==
  Extracted
  => /\ LooksLikeMath(mathText)
        => /\ Len(extraction.formulas) = 1
           /\ extraction.formulas[1].type = "block"
           /\ extraction.formulas[1].formula
                = normalizeUnicodeToLatex(Trim(mathText))
           /\ extraction.processedText = <<extraction.formulas[1].placeholder>>
           /\ IsPlaceholder(extraction.formulas[1].placeholder, 0)
     /\ ~LooksLikeMath(mathText) /\ ~Delimited(mathText)
        => /\ \A f \in DOMAIN extraction.formulas :
                /\ extraction.formulas[f].type = "inline"
                /\ IsBareCommand(extraction.formulas[f].formula)
           /\ normalizeUnicodeToLatex(Restored) = normalizeUnicodeToLatex(mathText)
           /\ \A i \in DOMAIN extraction.processedText :
                extraction.processedText[i] \notin NakedCommands
     /\ ~LooksLikeMath(mathText) /\ Trim(mathText) # <<>>
        => ~(/\ Len(extraction.formulas) = 1
             /\ extraction.formulas[1].type = "block"
             /\ extraction.formulas[1].formula
                  = normalizeUnicodeToLatex(Trim(mathText)))

\* "65 \times 10 \times 2 = 1300" was taken as one block formula
C24_Witness ==
  /\ Extracted
  /\ Head(mathText) = "6"
  /\ LooksLikeMath(mathText)
  /\ Len(extraction.formulas) = 1
  /\ extraction.formulas[1].type = "block"
  /\ extraction.formulas[1].formula = mathText

\* how often the symbol sym occurs in the text
Occurrences(text, sym) == Cardinality({k \in DOMAIN text : text[k] = sym})

\* C25: the placeholders of the formulas extracted from a text are pairwise
\* distinct, each occurs exactly once in the processed text, and no formula
\* source holds a placeholder.
C25_PlaceholderIntegrity ==
  Extracted
  => LET formulas == extraction.formulas
         limit == 2 * Len(mathText)
     IN  /\ \A i, j \in DOMAIN formulas :
              i # j => formulas[i].placeholder # formulas[j].placeholder
         /\ \A i \in DOMAIN formulas :
              /\ IsPlaceholder(formulas[i].placeholder, limit)
              /\ Occurrences(extraction.processedText, formulas[i].placeholder) = 1
              /\ \A k \in DOMAIN formulas[i].formula :
                   ~IsPlaceholder(formulas[i].formula[k], limit)

(***************************************************************************)
(* Claims about what reaches the document (SpecRun)                        *)
(***************************************************************************)
\* a placeholder of the extractor or of the naked fallback
IsSentinel(str) == str = "[[FORMULA_BLOCK_NAKED]]" \/ IsPlaceholder(str, 9)

NoSentinelIn(rs) ==
  \A r \in DOMAIN rs : rs[r].run = "text" => ~IsSentinel(rs[r].text)

\* C26: no text run written for a paragraph, a list item, a table cell or
\* a heading is or holds a formula placeholder, also when math is detected
\* in the text and no formula is extracted from it.
C26_NoPlaceholderLeak ==
  \A e \in DOMAIN docxElements :
     LET element == docxElements[e]
     IN  /\ element.el \in {"paragraph", "bullet"} => NoSentinelIn(element.children)
         /\ element.el = "table"
            => \A r \in DOMAIN element.rows : \A c \in DOMAIN element.rows[r] :
                  NoSentinelIn(element.rows[r][c])
         /\ element.el = "heading"
            => \A r \in DOMAIN element.children :
                  \A k \in DOMAIN element.children[r].text :
                     ~IsSentinel(element.children[r].text[k])

\* C27: within a run, the image that stands for a block formula was
\* rendered in display mode and the image that stands for an inline formula
\* was not, also when a block and an inline formula have the same source.
C27_DisplayModeMatchesKind ==
  pc = "mixed" /\ AllSettled(tasks)
  => \A i \in DOMAIN tasks :
        tasks[i].imageData.kind = "image"
        => /\ tasks[i].imageData.src = tasks[i].f.formula
           /\ tasks[i].imageData.display = (tasks[i].f.type = "block")


(***************************************************************************)
(* Frame conditions of LRUCache (SpecCache).                               *)
(***************************************************************************)
\* the entries of a cache other than the one of key, in Map order
OtherEntries(cache, key) == SelectSeq(cache, LAMBDA e : e.key # key)

\* the entry a Map iterates last, the most recently used one
MostRecent(cache) == cache[Len(cache)]

\* C30: a set of a key that is present replaces its value, makes it the most
\* recently used entry, evicts nothing and keeps the size, at capacity too,
\* and leaves every other entry and their order alone; a get of an absent
\* key answers undefined and changes neither contents nor order; a stored
\* null is answered as null, which is not undefined, and the get moves its
\* entry to the most recently used place like any other entry.
C30_FrameConditions ==
  [][/\ (lastOp'.op = "set" /\ CacheHas(lru.cache, lastOp'.key))
        => /\ MostRecent(lru'.cache) = [key |-> lastOp'.key, value |-> lastOp'.value]
           /\ lastOp'.evicted = {}
           /\ LRUSize(lru'.cache) = LRUSize(lru.cache)
           /\ OtherEntries(lru'.cache, lastOp'.key) = OtherEntries(lru.cache, lastOp'.key)
     /\ (lastOp'.op = "get" /\ ~CacheHas(lru.cache, lastOp'.key))
        => /\ lastOp'.value = Undefined
           /\ lru' = lru
     /\ (lastOp'.op = "get" /\ CacheHas(lru.cache, lastOp'.key)
           /\ MapGet(lru.cache, lastOp'.key) = Null)
        => /\ lastOp'.value = Null
           /\ lastOp'.value # Undefined
           /\ MostRecent(lru'.cache) = [key |-> lastOp'.key, value |-> Null]
           /\ LRUSize(lru'.cache) = LRUSize(lru.cache)
           /\ OtherEntries(lru'.cache, lastOp'.key) = OtherEntries(lru.cache, lastOp'.key)]_vars

\* C30 witness: a cache of capacity 3 holding three keys, where key 2, the
\* one stored second, was just set again and is now the last of the three.
C30_Witness ==
  /\ lru.maxSize = 3
  /\ LRUSize(lru.cache) = 3
  /\ lastOp.op = "set" /\ lastOp.key = 2 /\ lastOp.evicted = {}
  /\ [i \in DOMAIN lru.cache |-> lru.cache[i].key] = <<1, 3, 2>>
  /\ lru.cache[1].value = Null


(***************************************************************************)
(* Claims about overlapping invocations (SpecOverlap).                     *)
(***************************************************************************)
\* the keys invocation r has stored since it was called
StoredBy(r) ==
  {events[i].key : i \in {j \in DOMAIN events :
      /\ events[j].run = r /\ events[j].op = "set"
      /\ \E c \in 1..j : events[c].run = r /\ events[c].op = "clear"}}

\* the invocation whose set put the entry there that the event at i hit
StoredTheEntryHitAt(i) ==
  LET sets == {j \in 1..(i - 1) : events[j].op = "set" /\ events[j].key = events[i].key}
  IN  events[CHOOSE j \in sets : \A k \in sets : k <= j].run

\* while an invocation has not completed, every entry it stored is still in
\* the formula cache (the cache is far from its capacity here)
OwnEntriesStayAvailable ==
  \A r \in DOMAIN invocations :
    invocations[r].at \in {"lookup", "render"}
    => \A key \in StoredBy(r) : CacheHas(formulaImageCache, key)

\* no invocation hits an entry that another invocation stored
NoReadOfForeignEntry ==
  \A i \in DOMAIN events :
    events[i].op = "hit" => StoredTheEntryHitAt(i) = events[i].run

\* C29 (as claimed): when invocations of generateWordDocument overlap, an
\* entry stored by one of them stays available to it until it completes, and
\* none of them reads an entry stored by another.
C29_OverlappingRunsDoNotInterfere ==
  /\ OwnEntriesStayAvailable
  /\ NoReadOfForeignEntry

====
